---- MODULE Spec2Model ----
(***************************************************************************)
(* vertigo: an OpenAI-compatible proxy in front of the Gemini API.         *)
(*                                                                         *)
(* The model covers the credential pool (KeyManager, KeyRotator), the      *)
(* conversation stores (in-memory and SQLite), the request pipeline of     *)
(* proxy.Manager behind api.ChatCompletionsHandler, and the reverse-proxy  *)
(* pipeline of handler.NewProxyHandler.                                    *)
(*                                                                         *)
(* Time is counted in minutes.  Keys are named by their position in        *)
(* km.keys / kr.keys (1..NKeys); NoKey stands for the empty string that    *)
(* GetNextAvailableKey returns when no key is available.                   *)
(***************************************************************************)
EXTENDS Integers, Sequences, FiniteSets, TLC

(* ------------------------------ bounds --------------------------------- *)

\* number of configured API keys (cfg.Gemini.APIKeys)
NKeys == 2

\* the clock runs from 1 to MaxTime
MaxTime == 7

\* MarkKeyAsBad is called with durations 1..MaxDuration in the pool specification
MaxDuration == 3

\* the clock of the store specifications runs from 1 to MaxStoreTime
MaxStoreTime == 3

\* a conversation holds at most MaxMsgs messages; the messages table at most MaxMsgs rows
MaxMsgs == 2

\* at most MaxObjs Conversation objects are allocated by the in-memory store
MaxObjs == 2

\* goroutines calling the in-memory store at the same time
NThreads == 2

\* requests in flight at the same time
NRequests == 2

\* at most MaxUuid identifiers are generated by uuid.New()
MaxUuid == 3

(* ------------------------- program constants --------------------------- *)

\* ProcessRequest quarantines a failed key for 5*time.Minute
FixedCooldown == 5

(* ------------------------------ values --------------------------------- *)

Keys == 1..NKeys

\* the "" that GetNextAvailableKey / GetNextKey return for "no key"
NoKey == 0

\* a key string that is not in km.keyStatus
UnknownKey == NKeys + 1

\* the zero time.Time of a fresh KeyStatus
ZeroTime == 0

Max(a, b) == IF a >= b THEN a ELSE b

VARIABLES
    now,          \* time.Now(), in minutes
    keyStatus,    \* KeyManager.keyStatus: key -> [IsBad, BadUntil]
    mutex,        \* KeyManager.mutex: the holder, or NoHolder
    krIndex,      \* KeyRotator.index (0-based)
    qUntil,       \* history: per key, the latest t + d of any quarantine(c, d) made at t
    kmWindow,     \* history: the last <= NKeys keys GetNextAvailableKey returned since the last quarantine
    krWindow,     \* history: the last <= NKeys keys GetNextKey returned
    lastOp,       \* history: the last pool call, its arguments, result and the status it found
    memObjs,      \* in-memory store: the Conversation objects allocated so far (a pointer is an index)
    memMap,       \* in-memory store: ConversationStore.store, id -> pointer
    dbConvs,      \* SQLite: table conversations, id -> last_updated
    dbMsgs,       \* SQLite: table messages in rowid order, rows [cid, role, content, ts]
    uuidCount,    \* number of identifiers uuid.New() has produced
    lastCall,     \* history: the last store call, its arguments and its result
    probe,        \* history: the get / append / get sequence in progress on one id of one backend
    thr,          \* the goroutines calling the in-memory store: position and locals of each
    completed,    \* history: per id, the messages whose AddMessage has returned
    reqs,         \* the requests in flight through api.ChatCompletionsHandler and proxy.Manager
    preqs         \* the requests in flight through handler.NewProxyHandler

poolVars == <<keyStatus, mutex, krIndex, qUntil, kmWindow, krWindow, lastOp>>

memVars == <<memObjs, memMap>>

dbVars == <<dbConvs, dbMsgs, uuidCount>>

storeVars == <<memVars, dbVars, lastCall, probe>>

thrVars == <<thr, completed, reqs, preqs>>

vars == <<now, poolVars, storeVars, thrVars>>

NoHolder == 0

(* ----------------------------- KeyManager ------------------------------ *)

\* NewKeyManager: every key starts with KeyStatus{IsBad: false}
NewKeyManager == [k \in Keys |-> [IsBad |-> FALSE, BadUntil |-> ZeroTime]]

\* a lock that excludes nobody
MutexLock_NoExclusion(holder) == TRUE

\* sync.Mutex.Lock returns only while nobody holds the mutex
MutexLock(holder) == holder = NoHolder

\* a return that leaves the mutex with its holder
MutexUnlock_Kept(holder) == holder

\* defer km.mutex.Unlock(): the holder of the mutex after the return of the function
MutexUnlock(holder) == NoHolder

\* the test of GetNextAvailableKey: !status.IsBad || time.Now().After(status.BadUntil)
KeyAvailable(status, t) == (~status.IsBad) \/ t > status.BadUntil

\* the loop of GetNextAvailableKey from position i: the first available key, or ""
RECURSIVE ScanKeys(_, _, _)
ScanKeys(ks, t, i) ==
    IF i > NKeys THEN NoKey
    ELSE IF KeyAvailable(ks[i], t) THEN i
    ELSE ScanKeys(ks, t, i + 1)

\* the status map after GetNextAvailableKey returned k: status.IsBad = false
ClearBad(ks, k) == IF k = NoKey THEN ks ELSE [ks EXCEPT ![k].IsBad = FALSE]

\* the status map after MarkKeyAsBad(key, d) at time t; unknown keys are ignored
SetBad(ks, key, t, d) ==
    IF key \in Keys
    THEN [ks EXCEPT ![key] = [IsBad |-> TRUE, BadUntil |-> t + d]]
    ELSE ks

\* keep the last n elements of s
LastN(s, n) == IF Len(s) <= n THEN s ELSE SubSeq(s, Len(s) - n + 1, Len(s))

NoOp == [op |-> "none", key |-> NoKey, dur |-> 0, at |-> 0, pre |-> NewKeyManager]

\* KeyManager.GetNextAvailableKey, called with no contention on the mutex
GetNextAvailableKey ==
    /\ MutexLock(mutex)
    /\ LET k == ScanKeys(keyStatus, now, 1) IN
        /\ keyStatus' = ClearBad(keyStatus, k)
        /\ kmWindow' = IF k = NoKey THEN <<>> ELSE LastN(Append(kmWindow, k), NKeys)
        /\ lastOp' = [op |-> "acquire", key |-> k, dur |-> 0, at |-> now, pre |-> keyStatus]
    /\ UNCHANGED <<now, mutex, krIndex, qUntil, krWindow, storeVars, thrVars>>

\* KeyManager.MarkKeyAsBad(key, duration), called with no contention on the mutex
MarkKeyAsBad(key, d) ==
    /\ MutexLock(mutex)
    /\ keyStatus' = SetBad(keyStatus, key, now, d)
    /\ qUntil' = IF key \in Keys THEN [qUntil EXCEPT ![key] = Max(@, now + d)] ELSE qUntil
    /\ kmWindow' = <<>>
    /\ lastOp' = [op |-> "mark", key |-> key, dur |-> d, at |-> now, pre |-> keyStatus]
    /\ UNCHANGED <<now, mutex, krIndex, krWindow, storeVars, thrVars>>

(* ----------------------------- KeyRotator ------------------------------ *)

\* KeyRotator.GetNextKey: keys[index], then index = (index + 1) % len(keys)
RotatorKey(i) == IF NKeys = 0 THEN NoKey ELSE i + 1

RotatorNext(i) == IF NKeys = 0 THEN i ELSE (i + 1) % NKeys

GetNextKey ==
    /\ krWindow' = LastN(Append(krWindow, RotatorKey(krIndex)), NKeys)
    /\ krIndex' = RotatorNext(krIndex)
    /\ lastOp' = [op |-> "next", key |-> RotatorKey(krIndex), dur |-> 0, at |-> now, pre |-> keyStatus]
    /\ UNCHANGED <<now, keyStatus, mutex, qUntil, kmWindow, storeVars, thrVars>>

(* ------------------------ conversation stores -------------------------- *)

\* the empty conversation id
EmptyId == ""

\* conversation ids that clients send
ClientIds == {"c1"}

Roles == {"user", "assistant"}

Contents == {"a", "b"}

\* store.Message
Message(role, content) == [role |-> role, content |-> content]

\* the n-th identifier of uuid.New().String(): never empty, never a client id
GenId(n) == "uuid-" \o ToString(n)

NullPtr == 0

(* the in-memory store: sync.Map of *Conversation *)

\* sync.Map.Load: the pointer stored under id, or nil
MemLoad(map, id) == IF id \in DOMAIN map THEN map[id] ELSE NullPtr

\* sync.Map.Store
MemStore(map, id, ptr) == [k \in DOMAIN map \cup {id} |-> IF k = id THEN ptr ELSE map[k]]

\* sync.Map.Delete
MemDelete(map, id) == [k \in DOMAIN map \ {id} |-> map[k]]

\* &Conversation{Messages: []Message{}, LastUpdated: time.Now()}
NewConversation(t) == [Messages |-> <<>>, LastUpdated |-> t]

\* GetConversation of the in-memory store at time t, run without interruption:
\* the pointer it returns and the objects and map it leaves
MemGet(objs, map, id, t) ==
    IF MemLoad(map, id) # NullPtr
    THEN [ptr  |-> MemLoad(map, id),
          objs |-> [objs EXCEPT ![MemLoad(map, id)].LastUpdated = t],
          map  |-> map]
    ELSE [ptr  |-> Len(objs) + 1,
          objs |-> Append(objs, NewConversation(t)),
          map  |-> MemStore(map, id, Len(objs) + 1)]

\* AddMessage of the in-memory store at time t, run without interruption
MemAdd(objs, map, id, msg, t) ==
    LET g == MemGet(objs, map, id, t) IN
    [ptr  |-> g.ptr,
     objs |-> [g.objs EXCEPT ![g.ptr] =
                  [Messages |-> Append(g.objs[g.ptr].Messages, msg), LastUpdated |-> t]],
     map  |-> g.map]

(* the SQLite store *)

\* the statements of one store call that can fail; "none": no statement fails
GetFaults == {"none", "select", "insert", "query"}

AddFaults == GetFaults \cup {"insertmsg", "update"}

\* the rowids of the messages of conversation cid
RowsOf(msgs, cid) == {i \in DOMAIN msgs : msgs[i].cid = cid}

\* SELECT role, content FROM messages WHERE conversation_id = ? ORDER BY timestamp ASC:
\* every order of the rows that ascends by timestamp (SQL leaves the order of rows
\* with equal timestamps open)
QueryMessages(msgs, cid) ==
    LET rows == RowsOf(msgs, cid)
        n    == Cardinality(rows)
        ords == {f \in [1..n -> rows] :
                    \A a, b \in 1..n : a < b => (f[a] # f[b] /\ msgs[f[a]].ts <= msgs[f[b]].ts)}
    IN  {[k \in 1..n |-> Message(msgs[f[k]].role, msgs[f[k]].content)] : f \in ords}

\* the messages of conversation cid in the order of their INSERTs (the rowid order)
AppendOrder(msgs, cid) ==
    LET own == SelectSeq(msgs, LAMBDA row : row.cid = cid)
    IN  [k \in 1..Len(own) |-> Message(own[k].role, own[k].content)]

\* the id GetConversation works with: a fresh uuid when the id given is empty
DbResolveId(id, n) == IF id = EmptyId THEN GenId(n + 1) ELSE id

\* GetConversation of the SQLite store at time t with the fault given; hist is the
\* order in which the query returned the rows
DbGet(convs, id, n, t, fault, hist) ==
    LET cid == DbResolveId(id, n) IN
    IF fault = "select" THEN [ok |-> FALSE, ID |-> cid, Messages |-> <<>>, convs |-> convs]
    ELSE IF cid \notin DOMAIN convs
    THEN IF fault = "insert"
         THEN [ok |-> FALSE, ID |-> cid, Messages |-> <<>>, convs |-> convs]
         ELSE [ok |-> TRUE, ID |-> cid, Messages |-> <<>>,
               convs |-> [k \in DOMAIN convs \cup {cid} |-> IF k = cid THEN t ELSE convs[k]]]
    ELSE IF fault = "query"
         THEN [ok |-> FALSE, ID |-> cid, Messages |-> <<>>, convs |-> convs]
         ELSE [ok |-> TRUE, ID |-> cid, Messages |-> hist, convs |-> convs]

\* the number of uuids drawn after a GetConversation(id)
DbUuidAfter(id, n) == IF id = EmptyId THEN n + 1 ELSE n

\* the room the bounds leave for a GetConversation(id)
DbGetRoom(id) == id # EmptyId \/ uuidCount < MaxUuid

\* INSERT INTO messages (conversation_id, role, content, timestamp)
InsertMessage(msgs, id, msg, t) ==
    Append(msgs, [cid |-> id, role |-> msg.role, content |-> msg.content, ts |-> t])

\* UPDATE conversations SET last_updated = ? WHERE id = ?
UpdateLastUpdated(convs, id, t) == [k \in DOMAIN convs |-> IF k = id THEN t ELSE convs[k]]

\* AddMessage of the SQLite store at time t with the fault given
DbAdd(convs, msgs, id, n, msg, t, fault, hist) ==
    LET g == DbGet(convs, id, n, t, fault, hist) IN
    IF ~g.ok THEN [ok |-> FALSE, convs |-> g.convs, msgs |-> msgs]
    ELSE IF fault = "insertmsg" THEN [ok |-> FALSE, convs |-> g.convs, msgs |-> msgs]
    ELSE IF fault = "update"
         THEN [ok |-> FALSE, convs |-> g.convs, msgs |-> InsertMessage(msgs, id, msg, t)]
         ELSE [ok |-> TRUE, convs |-> UpdateLastUpdated(g.convs, id, t),
               msgs |-> InsertMessage(msgs, id, msg, t)]

\* the rows left by DELETE FROM messages WHERE conversation_id = ?
DeleteMessages(msgs, id) == SelectSeq(msgs, LAMBDA row : row.cid # id)

\* the rows left by DELETE FROM conversations WHERE id = ?
DeleteConversation(convs, id) == [k \in DOMAIN convs \ {id} |-> convs[k]]

(* the store calls, one at a time *)

NoMessage == Message("", "")

NoCall == [be |-> "none", op |-> "none", id |-> EmptyId, msg |-> NoMessage, fault |-> "none",
           ok |-> TRUE, known |-> FALSE, key |-> EmptyId, hist |-> <<>>]

NoProbe == [stage |-> 0, be |-> "none", id |-> EmptyId, msg |-> NoMessage, h0 |-> <<>>, h1 |-> <<>>]

\* the probe after a successful get(id) on backend be that returned hist
ProbeGet(be, id, hist) ==
    IF probe.stage = 2 /\ probe.be = be /\ probe.id = id
    THEN [probe EXCEPT !.stage = 3, !.h1 = hist]
    ELSE [stage |-> 1, be |-> be, id |-> id, msg |-> NoMessage, h0 |-> hist, h1 |-> <<>>]

\* the probe after a successful append(id, msg) on backend be
ProbeAdd(be, id, msg) ==
    IF probe.stage = 1 /\ probe.be = be /\ probe.id = id
    THEN [probe EXCEPT !.stage = 2, !.msg = msg]
    ELSE NoProbe

\* ConversationStore.GetConversation (in memory)
MemGetConversation(id) ==
    /\ id \in DOMAIN memMap \/ Len(memObjs) < MaxObjs
    /\ LET g == MemGet(memObjs, memMap, id, now) IN
        /\ memObjs' = g.objs
        /\ memMap' = g.map
        /\ lastCall' = [be |-> "mem", op |-> "get", id |-> id, msg |-> NoMessage, fault |-> "none",
                        ok |-> TRUE, known |-> id \in DOMAIN memMap, key |-> id,
                        hist |-> g.objs[g.ptr].Messages]
        /\ probe' = ProbeGet("mem", id, g.objs[g.ptr].Messages)
    /\ UNCHANGED <<now, poolVars, dbVars, thrVars>>

\* ConversationStore.AddMessage (in memory)
MemAddMessage(id, role, content) ==
    /\ id \in DOMAIN memMap \/ Len(memObjs) < MaxObjs
    /\ id \in DOMAIN memMap => Len(memObjs[memMap[id]].Messages) < MaxMsgs
    /\ LET a == MemAdd(memObjs, memMap, id, Message(role, content), now) IN
        /\ memObjs' = a.objs
        /\ memMap' = a.map
        /\ lastCall' = [be |-> "mem", op |-> "add", id |-> id, msg |-> Message(role, content),
                        fault |-> "none", ok |-> TRUE, known |-> id \in DOMAIN memMap,
                        key |-> id, hist |-> <<>>]
        /\ probe' = ProbeAdd("mem", id, Message(role, content))
    /\ UNCHANGED <<now, poolVars, dbVars, thrVars>>

\* ConversationStore.ClearConversation (in memory)
MemClearConversation(id) ==
    /\ memMap' = MemDelete(memMap, id)
    /\ lastCall' = [be |-> "mem", op |-> "clear", id |-> id, msg |-> NoMessage, fault |-> "none",
                    ok |-> TRUE, known |-> id \in DOMAIN memMap, key |-> id, hist |-> <<>>]
    /\ probe' = NoProbe
    /\ UNCHANGED <<now, poolVars, memObjs, dbVars, thrVars>>

\* ConversationStore.GetConversation (SQLite)
DbGetConversation(id, fault) ==
    /\ DbGetRoom(id)
    /\ \E hist \in QueryMessages(dbMsgs, DbResolveId(id, uuidCount)) :
        LET g == DbGet(dbConvs, id, uuidCount, now, fault, hist) IN
        /\ dbConvs' = g.convs
        /\ lastCall' = [be |-> "db", op |-> "get", id |-> id, msg |-> NoMessage, fault |-> fault,
                        ok |-> g.ok, known |-> id \in DOMAIN dbConvs, key |-> g.ID,
                        hist |-> g.Messages]
        /\ probe' = IF g.ok THEN ProbeGet("db", id, g.Messages) ELSE NoProbe
    /\ uuidCount' = DbUuidAfter(id, uuidCount)
    /\ UNCHANGED <<now, poolVars, memVars, dbMsgs, thrVars>>

\* ConversationStore.AddMessage (SQLite)
DbAddMessage(id, role, content, fault) ==
    /\ DbGetRoom(id)
    /\ Len(dbMsgs) < MaxMsgs
    /\ \E hist \in QueryMessages(dbMsgs, DbResolveId(id, uuidCount)) :
        LET a == DbAdd(dbConvs, dbMsgs, id, uuidCount, Message(role, content), now, fault, hist) IN
        /\ dbConvs' = a.convs
        /\ dbMsgs' = a.msgs
        /\ lastCall' = [be |-> "db", op |-> "add", id |-> id, msg |-> Message(role, content),
                        fault |-> fault, ok |-> a.ok, known |-> id \in DOMAIN dbConvs,
                        key |-> id, hist |-> <<>>]
        /\ probe' = IF a.ok THEN ProbeAdd("db", id, Message(role, content)) ELSE NoProbe
    /\ uuidCount' = DbUuidAfter(id, uuidCount)
    /\ UNCHANGED <<now, poolVars, memVars, thrVars>>

\* ConversationStore.ClearConversation (SQLite): one transaction, rolled back on a fault
DbClearConversation(id, fault) ==
    /\ dbMsgs' = IF fault = "none" THEN DeleteMessages(dbMsgs, id) ELSE dbMsgs
    /\ dbConvs' = IF fault = "none" THEN DeleteConversation(dbConvs, id) ELSE dbConvs
    /\ lastCall' = [be |-> "db", op |-> "clear", id |-> id, msg |-> NoMessage, fault |-> fault,
                    ok |-> fault = "none", known |-> id \in DOMAIN dbConvs, key |-> id,
                    hist |-> <<>>]
    /\ probe' = NoProbe
    /\ UNCHANGED <<now, poolVars, memVars, uuidCount, thrVars>>

(* ------------- the in-memory store under concurrent calls -------------- *)

Threads == 1..NThreads

IdArgs == {EmptyId} \cup ClientIds

IdleThread == [pc |-> "idle", op |-> "none", id |-> EmptyId, msg |-> NoMessage, ptr |-> NullPtr,
               local |-> <<>>, seen |-> {}, hist |-> <<>>]

\* the contents of the messages that some AddMessage call has been given
UsedContents ==
    {thr[t].msg.content : t \in {u \in Threads : thr[u].op = "add"}}
        \cup UNION {{m.content : m \in completed[id]} : id \in IdArgs}

\* where GetConversation returns to: its caller, or the rest of AddMessage
AfterGet(op) == IF op = "get" THEN "ret" ELSE "read"

\* a goroutine calls GetConversation(id)
CallGet(t, id) ==
    /\ thr[t].pc = "idle"
    /\ thr' = [thr EXCEPT ![t] = [IdleThread EXCEPT !.pc = "load", !.op = "get", !.id = id,
                                                     !.seen = completed[id]]]
    /\ UNCHANGED <<now, poolVars, storeVars, completed, reqs, preqs>>

\* a goroutine calls AddMessage(id, role, content); no two calls carry the same content
CallAdd(t, id, role, content) ==
    /\ thr[t].pc = "idle"
    /\ content \notin UsedContents
    /\ thr' = [thr EXCEPT ![t] = [IdleThread EXCEPT !.pc = "load", !.op = "add", !.id = id,
                                                     !.msg = Message(role, content),
                                                     !.seen = completed[id]]]
    /\ UNCHANGED <<now, poolVars, storeVars, completed, reqs, preqs>>

\* GetConversation: cs.store.Load(id)
StepLoad(t) ==
    /\ thr[t].pc = "load"
    /\ thr' = [thr EXCEPT ![t].ptr = MemLoad(memMap, thr[t].id),
                          ![t].pc = IF MemLoad(memMap, thr[t].id) # NullPtr THEN "touch" ELSE "store"]
    /\ UNCHANGED <<now, poolVars, storeVars, completed, reqs, preqs>>

\* GetConversation, id found: conv.LastUpdated = time.Now(); return conv
StepTouch(t) ==
    /\ thr[t].pc = "touch"
    /\ memObjs' = [memObjs EXCEPT ![thr[t].ptr].LastUpdated = now]
    /\ thr' = [thr EXCEPT ![t].pc = AfterGet(thr[t].op),
                          ![t].hist = memObjs[thr[t].ptr].Messages]
    /\ UNCHANGED <<now, poolVars, memMap, dbVars, lastCall, probe, completed, reqs, preqs>>

\* GetConversation, id not found: cs.store.Store(id, newConv); return newConv
StepStore(t) ==
    /\ thr[t].pc = "store"
    /\ Len(memObjs) < MaxObjs
    /\ memObjs' = Append(memObjs, NewConversation(now))
    /\ memMap' = MemStore(memMap, thr[t].id, Len(memObjs) + 1)
    /\ thr' = [thr EXCEPT ![t].ptr = Len(memObjs) + 1,
                          ![t].pc = AfterGet(thr[t].op),
                          ![t].hist = <<>>]
    /\ UNCHANGED <<now, poolVars, dbVars, lastCall, probe, completed, reqs, preqs>>

\* AddMessage: the read of conv.Messages in append(conv.Messages, ...)
StepRead(t) ==
    /\ thr[t].pc = "read"
    /\ thr' = [thr EXCEPT ![t].local = memObjs[thr[t].ptr].Messages, ![t].pc = "write"]
    /\ UNCHANGED <<now, poolVars, storeVars, completed, reqs, preqs>>

\* AddMessage: the assignment conv.Messages = append(...)
StepWrite(t) ==
    /\ thr[t].pc = "write"
    /\ memObjs' = [memObjs EXCEPT ![thr[t].ptr].Messages = Append(thr[t].local, thr[t].msg)]
    /\ thr' = [thr EXCEPT ![t].pc = "stamp"]
    /\ UNCHANGED <<now, poolVars, memMap, dbVars, lastCall, probe, completed, reqs, preqs>>

\* AddMessage: conv.LastUpdated = time.Now(); the call returns
StepStamp(t) ==
    /\ thr[t].pc = "stamp"
    /\ memObjs' = [memObjs EXCEPT ![thr[t].ptr].LastUpdated = now]
    /\ thr' = [thr EXCEPT ![t].pc = "ret"]
    /\ completed' = [completed EXCEPT ![thr[t].id] = @ \cup {thr[t].msg}]
    /\ UNCHANGED <<now, poolVars, memMap, dbVars, lastCall, probe, reqs, preqs>>

\* the caller takes the result and goes on
StepReturn(t) ==
    /\ thr[t].pc = "ret"
    /\ thr' = [thr EXCEPT ![t] = IdleThread]
    /\ UNCHANGED <<now, poolVars, storeVars, completed, reqs, preqs>>

(* ------------------ request bodies and proxy.SelectModel --------------- *)

\* the model names of the const block
ModelVertigoBlast == "vertigo-1.0-blast"

ModelGemini20Flash == "gemini-2.0-flash"

ModelGemini25FlashLite == "gemini-2.5-flash-lite"

ModelGemini25Flash == "gemini-2.5-flash"

ModelGemini25Pro == "gemini-2.5-pro"

\* a field the JSON object does not have
Absent == "<absent>"

\* the "model" values clients send: the alias and a concrete model
ClientModels == {ModelVertigoBlast, ModelGemini25FlashLite}

\* the "reasoning_effort" values clients send
ClientEfforts == {Absent, "low", "medium", "high", "turbo"}

\* the "messages" of a chat request body: "u" is the newly arrived user turn, "x" a
\* turn of the history the client sends along
ClientMessageLists ==
    {<<>>,
     <<Message("user", "u")>>,
     <<Message("assistant", "x"), Message("user", "u")>>,
     <<Message("user", "u"), Message("assistant", "x")>>}

\* a chat request body as a JSON object; temperature stands for every other field
ChatBody(model, effort, messages, stream) ==
    [model |-> model, reasoning_effort |-> effort, messages |-> messages, stream |-> stream,
     temperature |-> "0.7"]

NoBody == ChatBody(Absent, Absent, <<>>, FALSE)

Bodies ==
    {ChatBody(m, e, msgs, st) :
        m \in ClientModels, e \in ClientEfforts, msgs \in ClientMessageLists, st \in BOOLEAN}

\* a switch whose default is the largest model
EffortModel_DefaultPro(effort) ==
    CASE effort = "low" -> ModelGemini20Flash
      [] effort = "medium" -> ModelGemini25Flash
      [] OTHER -> ModelGemini25Pro

\* the switch of SelectModel on reasoning_effort
EffortModel(effort) ==
    CASE effort = "low" -> ModelGemini20Flash
      [] effort = "medium" -> ModelGemini25Flash
      [] effort = "high" -> ModelGemini25Pro
      [] OTHER -> ModelGemini25Flash

\* a SelectModel that re-encodes every body, the alias or not
SelectModel_AlwaysRewrites(body) ==
    LET model == IF body.model = ModelVertigoBlast THEN EffortModel(body.reasoning_effort)
                 ELSE body.model
    IN  [model |-> model, body |-> [body EXCEPT !.model = model, !.reasoning_effort = Absent]]

\* a SelectModel that sets the model and leaves the effort field in
SelectModel_KeepsEffort(body) ==
    IF body.model # ModelVertigoBlast
    THEN [model |-> body.model, body |-> body]
    ELSE [model |-> EffortModel(body.reasoning_effort),
          body  |-> [body EXCEPT !.model = EffortModel(body.reasoning_effort)]]

\* SelectModel: the model to use and the body to go on with; a body that does not
\* name the alias is returned as it came, else the body is re-encoded with "model"
\* set and "reasoning_effort" deleted
SelectModel(body) ==
    IF body.model # ModelVertigoBlast
    THEN [model |-> body.model, body |-> body]
    ELSE [model |-> EffortModel(body.reasoning_effort),
          body  |-> [body EXCEPT !.model = EffortModel(body.reasoning_effort),
                                 !.reasoning_effort = Absent]]

\* the loop of ProcessRequest over conv.Messages: each stored message in turn is put
\* in front of the messages so far
RECURSIVE PrependEach(_, _)
PrependEach(hist, messages) ==
    IF hist = <<>> THEN messages
    ELSE PrependEach(Tail(hist), <<Head(hist)>> \o messages)

\* ProcessRequest from SelectModel's body to the final request body: the stored history
\* goes into "messages" when there is any
FinalRequestBody(body, hist) ==
    IF Len(hist) > 0
    THEN [body EXCEPT !.messages = PrependEach(hist, body.messages)]
    ELSE body

(* ------- api.ChatCompletionsHandler and proxy.Manager.ProcessRequest ---- *)

Requests == 1..NRequests

\* the id ChatCompletionsHandler uses when the X-Conversation-ID header is empty
DefaultConversation == "default-conversation"

\* what the request body is: unreadable, not a JSON object, a JSON object whose
\* "model" is not a string, or a well-formed chat request
BodyKinds == {"unreadable", "malformed", "badmodel", "chat"}

\* how the upstream call ends: a 200 response, a transport error or timeout, a non-200 status
UpstreamOutcomes == {"ok", "neterr", "status"}

UpstreamFailures == {"neterr", "status"}

StatusOK == 200

StatusBadRequest == 400

StatusInternalServerError == 500

StatusBadGateway == 502

\* history: no quarantine has completed
NoQuarantine == [k \in Keys |-> ZeroTime]

\* every key of the pool is marked bad and its quarantine has not expired at time t
AllQuarantined(ks, t) == \A k \in Keys : ks[k].IsBad /\ t <= ks[k].BadUntil

\* history fields of a request: qSeen is, while GetNextAvailableKey runs, the end of the
\* last quarantine of each key completed before it took the mutex; sawAllBad and early
\* say, of its return, whether every key was quarantined and whether the key it
\* returned was still inside a quarantine of qSeen
IdleReq == [pc |-> "idle", kind |-> "none", req |-> NoBody, stream |-> FALSE, hist |-> <<>>,
            sent |-> NoBody,
            apiKey |-> NoKey, idx |-> 0, qSeen |-> NoQuarantine, sawAllBad |-> FALSE,
            early |-> FALSE, nAcq |-> 0, nCall |-> 0,
            upstream |-> "none", marked |-> FALSE, status |-> 0, body |-> "none",
            up |-> <<>>, read |-> 0, events |-> <<>>, ended |-> "none",
            header |-> EmptyId, conv |-> EmptyId, logged |-> {}, payload |-> "none",
            storeErr |-> FALSE, stalls |-> FALSE, gone |-> FALSE, closed |-> FALSE]

\* the conversation id of a request: the header, or the placeholder
HeaderConversation(header) == IF header = EmptyId THEN DefaultConversation ELSE header

\* ChatCompletionsHandler up to GetNextAvailableKey: an unreadable body is answered
\* 500 and an unparsable one 400; else ProcessRequest runs SelectModel, whose error
\* fails the request, then GetConversation (SQLite), whose failure is logged and
\* leaves the request without history
HandlerReceive(r, kind, header, body, fault) ==
    /\ reqs[r].pc = "idle"
    /\ IF kind \in {"unreadable", "malformed", "badmodel"}
       THEN /\ fault = "none"
            /\ header = EmptyId
            /\ body = NoBody
            /\ reqs' = [reqs EXCEPT ![r] =
                    IF kind = "unreadable"
                    THEN [IdleReq EXCEPT !.pc = "done", !.kind = kind,
                                         !.status = StatusInternalServerError, !.body = "error"]
                    ELSE IF kind = "malformed"
                    THEN [IdleReq EXCEPT !.pc = "done", !.kind = kind,
                                         !.status = StatusBadRequest, !.body = "error"]
                    ELSE [IdleReq EXCEPT !.pc = "fail", !.kind = kind]]
            /\ UNCHANGED dbConvs
       ELSE LET id == HeaderConversation(header) IN
            \E hist \in QueryMessages(dbMsgs, id) :
            LET g == DbGet(dbConvs, id, uuidCount, now, fault, hist) IN
            LET h == IF g.ok THEN g.Messages ELSE <<>> IN
            /\ dbConvs' = g.convs
            /\ reqs' = [reqs EXCEPT ![r] =
                    [IdleReq EXCEPT !.pc = "acquire", !.kind = kind, !.req = body,
                                    !.header = header, !.conv = id, !.storeErr = ~g.ok,
                                    !.stream = body.stream, !.hist = h,
                                    !.sent = FinalRequestBody(SelectModel(body).body, h)]]
    /\ UNCHANGED <<now, poolVars, memVars, dbMsgs, uuidCount, lastCall, probe, thr, completed, preqs>>

\* GetNextAvailableKey: km.mutex.Lock()
AcquireLock(r) ==
    /\ reqs[r].pc = "acquire"
    /\ MutexLock(mutex)
    /\ mutex' = r
    /\ reqs' = [reqs EXCEPT ![r].pc = "scan", ![r].idx = 1, ![r].nAcq = @ + 1,
                            ![r].qSeen = qUntil]
    /\ UNCHANGED <<now, keyStatus, krIndex, qUntil, kmWindow, krWindow, lastOp, storeVars,
                   thr, completed, preqs>>

\* a ProcessRequest that does not test the key for ""
AfterAcquire_NoEmptyTest(key) == "call"

\* where ProcessRequest goes after GetNextAvailableKey returned key
AfterAcquire(key) == IF key = NoKey THEN "fail" ELSE "call"

\* GetNextAvailableKey: one round of the loop over km.keys, or the return after it;
\* the deferred Unlock runs with the return
AcquireScan(r) ==
    /\ reqs[r].pc = "scan"
    /\ LET i == reqs[r].idx IN
       IF i > NKeys \/ KeyAvailable(keyStatus[IF i > NKeys THEN 1 ELSE i], now)
       THEN LET key == IF i > NKeys THEN NoKey ELSE i IN
            /\ keyStatus' = ClearBad(keyStatus, key)
            /\ mutex' = MutexUnlock(mutex)
            /\ reqs' = [reqs EXCEPT ![r].pc = AfterAcquire(key), ![r].apiKey = key,
                                    ![r].sawAllBad = AllQuarantined(keyStatus, now),
                                    ![r].early = key # NoKey /\ now < reqs[r].qSeen[IF key = NoKey THEN 1 ELSE key],
                                    ![r].qSeen = NoQuarantine]
       ELSE /\ reqs' = [reqs EXCEPT ![r].idx = i + 1]
            /\ UNCHANGED <<keyStatus, mutex>>
    /\ UNCHANGED <<now, krIndex, qUntil, kmWindow, krWindow, lastOp, storeVars,
                   thr, completed, preqs>>

\* where ProcessRequest goes after GeminiClient.ChatCompletions returned
AfterUpstream(outcome) == IF outcome = "ok" THEN "respond" ELSE "mark"

\* a ProcessRequest whose log record of a failed call names no key
LoggedOnFailure_Nothing(apiKey) == {}

\* the credentials in the log record ProcessRequest writes when the call failed:
\* "Gemini API call failed for key %s: %v"
LoggedOnFailure(apiKey) == {apiKey}

\* GeminiClient.ChatCompletions(apiKey, finalRequestBody, stream); the records the
\* client logs hold the request body, the status and the response body. logged: the
\* credentials that the log records of the request hold
CallUpstream(r, outcome) ==
    /\ reqs[r].pc = "call"
    /\ reqs' = [reqs EXCEPT ![r].pc = AfterUpstream(outcome), ![r].nCall = @ + 1,
                            ![r].upstream = outcome,
                            ![r].logged = IF outcome = "ok" THEN @
                                          ELSE @ \cup LoggedOnFailure(reqs[r].apiKey)]
    /\ UNCHANGED <<now, poolVars, storeVars, thr, completed, preqs>>

\* MarkKeyAsBad: km.mutex.Lock()
MarkLock(r) ==
    /\ reqs[r].pc = "mark"
    /\ MutexLock(mutex)
    /\ mutex' = r
    /\ reqs' = [reqs EXCEPT ![r].pc = "mark_bad"]
    /\ UNCHANGED <<now, keyStatus, krIndex, qUntil, kmWindow, krWindow, lastOp, storeVars,
                   thr, completed, preqs>>

\* MarkKeyAsBad: status.IsBad = true
MarkSetBad(r) ==
    /\ reqs[r].pc = "mark_bad"
    /\ keyStatus' = [keyStatus EXCEPT ![reqs[r].apiKey].IsBad = TRUE]
    /\ reqs' = [reqs EXCEPT ![r].pc = "mark_until"]
    /\ UNCHANGED <<now, mutex, krIndex, qUntil, kmWindow, krWindow, lastOp, storeVars,
                   thr, completed, preqs>>

\* a retry loop: after MarkKeyAsBad the request takes another key
AfterMark_Retry == "acquire"

\* where ProcessRequest goes after MarkKeyAsBad: it returns the error
AfterMark == "fail"

\* MarkKeyAsBad: status.BadUntil = time.Now().Add(5 * time.Minute); the deferred Unlock
MarkSetUntil(r) ==
    /\ reqs[r].pc = "mark_until"
    /\ keyStatus' = [keyStatus EXCEPT ![reqs[r].apiKey].BadUntil = now + FixedCooldown]
    /\ qUntil' = [qUntil EXCEPT ![reqs[r].apiKey] = Max(@, now + FixedCooldown)]
    /\ mutex' = MutexUnlock(mutex)
    /\ reqs' = [reqs EXCEPT ![r].pc = AfterMark, ![r].marked = TRUE]
    /\ UNCHANGED <<now, krIndex, kmWindow, krWindow, lastOp, storeVars, thr, completed, preqs>>

\* ChatCompletionsHandler: ProcessRequest returned an error
RespondError(r) ==
    /\ reqs[r].pc = "fail"
    /\ reqs' = [reqs EXCEPT ![r].pc = "done", ![r].status = StatusInternalServerError,
                            ![r].body = "error"]
    /\ UNCHANGED <<now, poolVars, storeVars, thr, completed, preqs>>

\* what the body of a 200 response of the upstream is: no byte, text that is no JSON,
\* or a JSON value (a completion whose text is ReplyText)
UpstreamPayloads == {"empty", "unparsable", "json"}

ReplyText == "r"

\* the status of the non-streaming answer: w.WriteHeader(http.StatusOK) comes before
\* the body is looked at, and the WriteHeader of a later http.Error has no effect
ResponseStatus(payload) == StatusOK

\* the body of the non-streaming answer: {"error": "empty response from Gemini API"},
\* the text of http.Error, or the upstream JSON encoded again
ResponseBody(payload) ==
    CASE payload = "empty" -> "empty-error"
      [] payload = "unparsable" -> "error"
      [] OTHER -> "completion"

\* ChatCompletionsHandler: ProcessRequest returned the upstream reader and the body
\* did not ask for a stream; the handler reads the upstream body, writes the status
\* and the body and returns. It makes no call of the store.
RespondOK(r, payload) ==
    /\ reqs[r].pc = "respond"
    /\ ~reqs[r].stream
    /\ reqs' = [reqs EXCEPT ![r].pc = "done", ![r].status = ResponseStatus(payload),
                            ![r].body = ResponseBody(payload), ![r].payload = payload]
    /\ UNCHANGED <<now, poolVars, storeVars, thr, completed, preqs>>

(* ------------- ChatCompletionsHandler: the streaming branch ------------ *)

\* the prefix strings.HasPrefix tests, and a field name of another kind of line
DataPrefix == "data: "
EventPrefix == "event: "

\* a line of the upstream body, as bufio.Scanner returns it: its first characters and
\* the rest. form says what the rest is: the text [DONE], text json.Unmarshal rejects
\* ("malformed": not JSON, or JSON that is no object), a JSON object, or nothing
Line(prefix, form, chunk) == [prefix |-> prefix, form |-> form, chunk |-> chunk]

\* a member of "choices": delta is an object or not, and holds content or not
Choice(deltaIsObject, content, finish) ==
    [delta |-> [object |-> deltaIsObject, content |-> content], finish_reason |-> finish]

\* content that is present and is no string
NotAString == "<number>"

\* a JSON object of the upstream stream
Chunk(choices) == [choices |-> choices]

NoChunk == Chunk(<<>>)

\* the chunks of a reply "Hello", " world", the second with the finish reason
HelloChunk == Chunk(<<Choice(TRUE, "Hello", Absent)>>)
WorldChunk == Chunk(<<Choice(TRUE, " world", "stop")>>)

\* objects without the path choices[0].delta.content, or with a content of another type
PathlessChunks ==
    {NoChunk,
     Chunk(<<Choice(FALSE, Absent, "stop")>>),
     Chunk(<<Choice(TRUE, NotAString, Absent)>>)}

UpstreamLines ==
    {Line(DataPrefix, "object", c) : c \in {HelloChunk, WorldChunk} \cup PathlessChunks}
    \cup {Line(DataPrefix, "malformed", NoChunk),
          Line(DataPrefix, "sentinel", NoChunk),
          Line(EventPrefix, "object", HelloChunk),
          Line("", "blank", NoChunk)}

\* strings.HasPrefix(line, "data: ")
HasDataPrefix(line) == line.prefix = DataPrefix

\* a loop that reads on after [DONE]
IsSentinel_Never(line) == FALSE

\* jsonStr == "[DONE]"
IsSentinel(line) == line.form = "sentinel"

\* json.Unmarshal into map[string]interface{}: the error, and the object; the text
\* [DONE] is no JSON either
Unmarshal(line) ==
    [err |-> line.form # "object", chunk |-> IF line.form = "object" THEN line.chunk ELSE NoChunk]

\* a loop that gives up at a chunk it cannot decode
OnUnmarshalError_Break == "break"

\* what the loop does when json.Unmarshal fails
OnUnmarshalError == "continue"

\* content: choices[0].delta.content when every step of the path has its type, else ""
ExtractContent(chunk) ==
    IF /\ Len(chunk.choices) > 0
       /\ chunk.choices[1].delta.object
       /\ chunk.choices[1].delta.content \notin {Absent, NotAString}
    THEN chunk.choices[1].delta.content
    ELSE ""

\* finishReason: choices[0].finish_reason when present, else nil
ExtractFinish(chunk) ==
    IF Len(chunk.choices) > 0 THEN chunk.choices[1].finish_reason ELSE Absent

StreamId == "chatcmpl-test"

\* the event written for a chunk; model is reqBodyMap["model"] of the handler
OpenAIChunk(model, content, finish) ==
    [type |-> "chunk", id |-> StreamId, model |-> model, content |-> content,
     finish_reason |-> finish]

\* data: [DONE]
DoneEvent ==
    [type |-> "done", id |-> Absent, model |-> Absent, content |-> Absent,
     finish_reason |-> Absent]

\* ChatCompletionsHandler: the body asked for a stream; the headers and status 200 are
\* written and a scanner is put on the upstream body, which will hold the lines up;
\* stalls: after them the upstream neither sends nor closes
StreamStart(r, up, stalls) ==
    /\ reqs[r].pc = "respond"
    /\ reqs[r].stream
    /\ reqs' = [reqs EXCEPT ![r].pc = "stream", ![r].status = StatusOK, ![r].body = "events",
                            ![r].up = up, ![r].stalls = stalls]
    /\ UNCHANGED <<now, poolVars, storeVars, thr, completed, preqs>>

\* the client goes away while the stream runs. The server cancels the context of the
\* inbound request, which the handler never looks at, and the writes of the handler
\* fail from then on, which it does not test: the loop goes on as before
ClientDisconnect(r) ==
    /\ reqs[r].pc = "stream"
    /\ ~reqs[r].gone
    /\ reqs' = [reqs EXCEPT ![r].gone = TRUE]
    /\ UNCHANGED <<now, poolVars, storeVars, thr, completed, preqs>>

\* a client built without Timeout
BodyReadTimesOut_Never == FALSE

\* http.Client{Timeout: 60 * time.Second}: the time limit covers the reading of the
\* response body, so a read that waits is ended with an error
BodyReadTimesOut == TRUE

\* scanner.Scan() returns: with the next line or the end of the body when the upstream
\* has sent it, with an error at any time the connection breaks, and with the error
\* of the time limit when the upstream has stalled
ScanReturns(q, ioerr) ==
    (q.stalls /\ q.read = Len(q.up)) => (ioerr /\ BodyReadTimesOut)

\* the stream is over: scanner.Err() is logged, data: [DONE] written, the handler
\* returns
StreamClose(q, how) ==
    [q EXCEPT !.pc = "done", !.events = Append(@, DoneEvent), !.ended = how, !.closed = TRUE]

\* one turn of "for scanner.Scan()" and, when the loop ends, the code after it.
\* ioerr: the read fails (also bufio.ErrTooLong on a line over 64 KiB)
ScanTurn(q, ioerr) ==
    IF ioerr THEN StreamClose(q, "ioerr")
    ELSE IF q.read = Len(q.up) THEN StreamClose(q, "close")
    ELSE LET line == q.up[q.read + 1]
             got == [q EXCEPT !.read = @ + 1]
         IN  IF ~HasDataPrefix(line) THEN got
             ELSE IF IsSentinel(line) THEN StreamClose(got, "sentinel")
             ELSE IF Unmarshal(line).err
             THEN IF OnUnmarshalError = "continue" THEN got
                  ELSE StreamClose(got, "malformed")
             ELSE [got EXCEPT !.events =
                      Append(@, OpenAIChunk(q.req.model,
                                            ExtractContent(Unmarshal(line).chunk),
                                            ExtractFinish(Unmarshal(line).chunk)))]

\* a streaming branch that stores an assistant message when the stream is over
StreamScan_Persisting(r, ioerr) ==
    /\ reqs[r].pc = "stream"
    /\ ScanReturns(reqs[r], ioerr)
    /\ reqs' = [reqs EXCEPT ![r] = ScanTurn(reqs[r], ioerr)]
    /\ dbMsgs' = IF reqs'[r].pc = "done"
                 THEN InsertMessage(dbMsgs, reqs[r].conv, Message("assistant", ReplyText), now)
                 ELSE dbMsgs
    /\ UNCHANGED <<now, poolVars, memVars, dbConvs, uuidCount, lastCall, probe, thr, completed,
                   preqs>>

\* the streaming branch makes no call of the store
StreamScan(r, ioerr) ==
    /\ reqs[r].pc = "stream"
    /\ ScanReturns(reqs[r], ioerr)
    /\ reqs' = [reqs EXCEPT ![r] = ScanTurn(reqs[r], ioerr)]
    /\ UNCHANGED <<now, poolVars, storeVars, thr, completed, preqs>>

\* the handler returns; the slot takes the next request
Finish(r) ==
    /\ reqs[r].pc = "done"
    /\ reqs' = [reqs EXCEPT ![r] = IdleReq]
    /\ UNCHANGED <<now, poolVars, storeVars, thr, completed, preqs>>

(* ------------------------ handler.NewProxyHandler ---------------------- *)

MaxTokens == 2

\* the body of a 200 response of the upstream: text json.Unmarshal rejects, or a
\* gemini.ChatResponse; a candidate is the list of the texts of its parts
GeminiResponse(parses, candidates, prompt, total) ==
    [parses |-> parses, candidates |-> candidates, prompt |-> prompt, total |-> total]

NoResponse == GeminiResponse(FALSE, <<>>, 0, 0)

\* no candidate, a candidate without parts, a candidate with one part
CandidateLists == {<<>>, <<<<>>>>, <<<<ReplyText>>>>}

GeminiResponses ==
    {NoResponse} \cup
    {GeminiResponse(TRUE, c, pt, tt) : c \in CandidateLists, pt \in 0..MaxTokens, tt \in 0..MaxTokens}

\* geminiResponseMessage: the text of the first part of the first candidate, else ""
ResponseMessage(resp) ==
    IF Len(resp.candidates) > 0 /\ Len(resp.candidates[1]) > 0
    THEN resp.candidates[1][1]
    ELSE ""

\* openAIResp.Usage.CompletionTokens
CompletionTokens(prompt, total) == total - prompt

\* openAIResp: the body ModifyResponse puts in place of the upstream body
OpenAIResp(resp) ==
    [model |-> ModelVertigoBlast,
     choices |-> <<[role |-> "assistant", content |-> ResponseMessage(resp),
                    finish_reason |-> "stop"]>>,
     usage |-> [prompt_tokens |-> resp.prompt,
                completion_tokens |-> CompletionTokens(resp.prompt, resp.total),
                total_tokens |-> resp.total]]

NoReply ==
    [model |-> Absent, choices |-> <<>>,
     usage |-> [prompt_tokens |-> 0, completion_tokens |-> 0, total_tokens |-> 0]]

\* routed: the Director set the upstream URL on the request the proxy sends; out: the
\* messages of that request's body; built: a body the Director built on another request
\* before: the stored messages of the conversation when the request came in
IdleProxyReq == [pc |-> "idle", kind |-> "none", convId |-> EmptyId, key |-> NoKey, out |-> <<>>,
                 routed |-> FALSE, built |-> NoBody,
                 upstream |-> "none", status |-> 0, body |-> "none",
                 model |-> Absent, got |-> NoResponse, reply |-> NoReply, storeErr |-> FALSE,
                 before |-> <<>>]

\* the last client message, when it is a user message
LastUserMessage(msgs) ==
    IF Len(msgs) > 0 /\ msgs[Len(msgs)].role = "user" THEN <<msgs[Len(msgs)]>> ELSE <<>>

\* Director: on an unreadable or unparsable body, or when SelectModel fails, it returns with the request untouched;
\* else it fetches the conversation (in memory) when the body names one, appends the
\* last user message to conversation.Messages, builds the Gemini request from it and
\* takes the next key of the rotator
ProxyDirector(p, kind, cid, model, msgs) ==
    /\ preqs[p].pc = "idle"
    /\ IF kind # "chat"
       THEN /\ model = Absent
            /\ preqs' = [preqs EXCEPT ![p] = [IdleProxyReq EXCEPT !.pc = "roundtrip", !.kind = kind]]
            /\ UNCHANGED <<memVars, krIndex, krWindow>>
       ELSE IF cid = EmptyId
       THEN /\ preqs' = [preqs EXCEPT ![p] =
                    [IdleProxyReq EXCEPT !.pc = "roundtrip", !.kind = kind, !.routed = TRUE,
                                         !.model = SelectModel(ChatBody(model, Absent, msgs, FALSE)).model,
                                         !.key = RotatorKey(krIndex),
                                         !.out = LastUserMessage(msgs)]]
            /\ krIndex' = RotatorNext(krIndex)
            /\ krWindow' = LastN(Append(krWindow, RotatorKey(krIndex)), NKeys)
            /\ UNCHANGED memVars
       ELSE /\ cid \in DOMAIN memMap \/ Len(memObjs) < MaxObjs
            /\ LET g   == MemGet(memObjs, memMap, cid, now)
                   all == g.objs[g.ptr].Messages \o LastUserMessage(msgs)
               IN /\ Len(all) <= MaxMsgs
                  /\ memObjs' = [g.objs EXCEPT ![g.ptr].Messages = all]
                  /\ memMap' = g.map
                  /\ preqs' = [preqs EXCEPT ![p] =
                        [IdleProxyReq EXCEPT !.pc = "roundtrip", !.kind = kind, !.convId = cid,
                                             !.routed = TRUE,
                                             !.before = IF cid \in DOMAIN memMap
                                                        THEN memObjs[memMap[cid]].Messages
                                                        ELSE <<>>,
                                             !.model = SelectModel(ChatBody(model, Absent, msgs, FALSE)).model,
                                             !.key = RotatorKey(krIndex), !.out = all]]
            /\ krIndex' = RotatorNext(krIndex)
            /\ krWindow' = LastN(Append(krWindow, RotatorKey(krIndex)), NKeys)
    /\ UNCHANGED <<now, keyStatus, mutex, qUntil, kmWindow, lastOp, dbVars, lastCall, probe,
                   thr, completed, reqs>>

\* ReverseProxy: transport.RoundTrip; a request the Director left untouched has no
\* upstream URL and fails in the transport
ProxyRoundTrip(p, outcome) ==
    /\ preqs[p].pc = "roundtrip"
    /\ ~preqs[p].routed => outcome = "neterr"
    /\ preqs' = [preqs EXCEPT ![p].pc = "modify", ![p].upstream = outcome]
    /\ UNCHANGED <<now, poolVars, storeVars, thr, completed, reqs>>

\* ReverseProxy: the default ErrorHandler answers 502 on a transport error; ModifyResponse
\* passes a non-200 response on as it is and rewrites a 200 response in client format
\* (502 when the upstream body does not parse)
ProxyModifyResponse(p, resp) ==
    /\ preqs[p].pc = "modify"
    /\ preqs[p].upstream # "ok" => resp = NoResponse
    /\ preqs' = [preqs EXCEPT ![p].pc = "done",
            ![p].status = IF preqs[p].upstream = "neterr" THEN StatusBadGateway
                          ELSE IF preqs[p].upstream = "status" THEN StatusInternalServerError
                          ELSE IF resp.parses THEN StatusOK ELSE StatusBadGateway,
            ![p].body = IF preqs[p].upstream = "status" THEN "upstream"
                        ELSE IF preqs[p].upstream = "ok" /\ resp.parses THEN "completion"
                        ELSE "error",
            ![p].got = resp,
            ![p].reply = IF preqs[p].upstream = "ok" /\ resp.parses THEN OpenAIResp(resp)
                         ELSE NoReply]
    /\ UNCHANGED <<now, poolVars, storeVars, thr, completed, reqs>>

(* NewProxyHandler over the SQLite store *)

\* the id the Director makes up when the body names no conversation:
\* time.Now().Format("20060102150405")
TimeId(t) == "t-" \o ToString(t)

\* the store call of the Director that fails, if any
DirectorFaults == {"none", "first", "append", "refetch"}

\* a body decoded into OpenAIChatRequest and encoded again: model, messages and
\* reasoning_effort (omitted when empty) survive, every other field is dropped
ThroughChatRequest(body) == [body EXCEPT !.stream = FALSE, !.temperature = Absent]

\* Director over the SQLite store: it returns with the request untouched on an unreadable
\* or unparsable body or when SelectModel fails; else it rebinds req to the copy that
\* req.WithContext returns, fetches the conversation, appends the last user message,
\* fetches again, and sets the body built from the stored messages, the key of the
\* rotator and the upstream URL on that copy. The request the proxy sends keeps the
\* client's body and the URL it came with.
DbProxyDirector(p, kind, cid, body, fault) ==
    /\ preqs[p].pc = "idle"
    /\ IF kind # "chat"
       THEN /\ fault = "none" /\ cid = EmptyId /\ body = NoBody
            /\ preqs' = [preqs EXCEPT ![p] = [IdleProxyReq EXCEPT !.pc = "roundtrip", !.kind = kind]]
            /\ UNCHANGED <<dbConvs, dbMsgs, krIndex, krWindow>>
       ELSE LET id   == IF cid = EmptyId THEN TimeId(now) ELSE cid
                last == LastUserMessage(body.messages)
                left == [IdleProxyReq EXCEPT !.pc = "roundtrip", !.kind = kind, !.convId = id,
                                             !.out = body.messages,
                                             !.before = AppendOrder(dbMsgs, id)]
            IN
            /\ last # <<>> => Len(dbMsgs) < MaxMsgs
            /\ \E h0 \in QueryMessages(dbMsgs, id) :
               LET g1 == DbGet(dbConvs, id, uuidCount, now,
                               IF fault = "first" THEN "select" ELSE "none", h0)
                   a  == IF last = <<>> \/ ~g1.ok
                         THEN [ok |-> TRUE, convs |-> g1.convs, msgs |-> dbMsgs]
                         ELSE DbAdd(g1.convs, dbMsgs, id, uuidCount, last[1], now,
                                    IF fault = "append" THEN "update" ELSE "none", h0)
               IN
               \E h2 \in QueryMessages(a.msgs, id) :
               LET g2 == DbGet(a.convs, id, uuidCount, now,
                               IF fault = "refetch" THEN "query" ELSE "none", h2)
                   done == g1.ok /\ a.ok /\ g2.ok
               IN
               /\ dbConvs' = a.convs
               /\ dbMsgs' = a.msgs
               /\ preqs' = [preqs EXCEPT ![p] =
                      IF done
                      THEN [left EXCEPT !.key = RotatorKey(krIndex),
                                        !.built = [ThroughChatRequest(SelectModel(body).body)
                                                       EXCEPT !.messages = g2.Messages]]
                      ELSE [left EXCEPT !.storeErr = TRUE]]
               /\ krIndex' = IF done THEN RotatorNext(krIndex) ELSE krIndex
               /\ krWindow' = IF done THEN LastN(Append(krWindow, RotatorKey(krIndex)), NKeys)
                              ELSE krWindow
    /\ UNCHANGED <<now, keyStatus, mutex, qUntil, kmWindow, lastOp, memVars, uuidCount,
                   lastCall, probe, thr, completed, reqs>>

\* ReverseProxy: the transport refused the request and the default ErrorHandler answers
\* 502; ModifyResponse does not run
ProxyErrorHandler(p) ==
    /\ preqs[p].pc = "modify"
    /\ preqs[p].upstream = "neterr"
    /\ preqs' = [preqs EXCEPT ![p].pc = "done", ![p].status = StatusBadGateway,
                              ![p].body = "error"]
    /\ UNCHANGED <<now, poolVars, storeVars, thr, completed, reqs>>

\* the handler returns; the slot takes the next request
ProxyFinish(p) ==
    /\ preqs[p].pc = "done"
    /\ preqs' = [preqs EXCEPT ![p] = IdleProxyReq]
    /\ UNCHANGED <<now, poolVars, storeVars, thr, completed, reqs>>

(* -------------------------------- clock -------------------------------- *)

Tick ==
    /\ now < MaxTime
    /\ now' = now + 1
    /\ UNCHANGED <<poolVars, storeVars, thrVars>>

\* the clock of the store specifications
TickStore ==
    /\ now < MaxStoreTime
    /\ now' = now + 1
    /\ UNCHANGED <<poolVars, storeVars, thrVars>>

(* ------------------------------- Init ---------------------------------- *)

InitPool ==
    /\ keyStatus = NewKeyManager
    /\ mutex = NoHolder
    /\ krIndex = 0
    /\ qUntil = [k \in Keys |-> ZeroTime]
    /\ kmWindow = <<>>
    /\ krWindow = <<>>
    /\ lastOp = NoOp

\* NewConversationStore (in memory), and the tables InitDB creates
InitStore ==
    /\ memObjs = <<>>
    /\ memMap = <<>>
    /\ dbConvs = <<>>
    /\ dbMsgs = <<>>
    /\ uuidCount = 0
    /\ lastCall = NoCall
    /\ probe = NoProbe
    /\ thr = [t \in Threads |-> IdleThread]
    /\ completed = [id \in IdArgs |-> {}]
    /\ reqs = [r \in Requests |-> IdleReq]
    /\ preqs = [r \in Requests |-> IdleProxyReq]

Init ==
    /\ now = 1
    /\ InitPool
    /\ InitStore

(* -------- requests through ChatCompletionsHandler and the Manager ------ *)

Next ==
    \/ \E r \in Requests, kind \in BodyKinds, header \in {EmptyId}, fault \in GetFaults :
            HandlerReceive(r, kind, header,
                           IF kind = "chat" THEN ChatBody(ModelVertigoBlast, "high", <<Message("user", "u")>>, FALSE)
                           ELSE NoBody, fault)
    \/ \E r \in Requests : AcquireLock(r)
    \/ \E r \in Requests : AcquireScan(r)
    \/ \E r \in Requests, outcome \in UpstreamOutcomes : CallUpstream(r, outcome)
    \/ \E r \in Requests : MarkLock(r)
    \/ \E r \in Requests : MarkSetBad(r)
    \/ \E r \in Requests : MarkSetUntil(r)
    \/ \E r \in Requests : RespondError(r)
    \/ \E r \in Requests, payload \in UpstreamPayloads : RespondOK(r, payload)
    \/ \E r \in Requests : Finish(r)
    \/ Tick

Spec == Init /\ [][Next]_vars

(* ---- one request at a time through the Manager, over a filled store ---- *)

\* the bodies a request of the given kind can carry
BodiesOf(kind) == IF kind = "chat" THEN Bodies ELSE {NoBody}

NextRequest ==
    \/ \E kind \in BodyKinds, header \in IdArgs, fault \in {"none", "query"} :
            \E body \in BodiesOf(kind) : HandlerReceive(1, kind, header, body, fault)
    \/ AcquireLock(1)
    \/ AcquireScan(1)
    \/ CallUpstream(1, "ok")
    \/ RespondError(1)
    \/ RespondOK(1, "json")
    \/ StreamStart(1, <<>>, FALSE)
    \/ StreamScan(1, FALSE)
    \/ Finish(1)
    \/ \E id \in ClientIds, role \in Roles, content \in Contents :
            DbAddMessage(id, role, content, "none")
    \/ TickStore

SpecRequest == Init /\ [][NextRequest]_vars

(* ------------- one streaming request through the Manager --------------- *)

MaxLines == 3

\* the bodies an upstream can send: up to MaxLines lines
UpstreamBodies == UNION {[1..n -> UpstreamLines] : n \in 0..MaxLines}

StreamBodies ==
    {ChatBody(m, Absent, <<Message("user", "u")>>, TRUE) : m \in ClientModels}

\* the contents of the messages other clients store while the request runs
StreamContents == {"a"}

NextStream ==
    \/ \E header \in ClientIds, body \in StreamBodies :
            HandlerReceive(1, "chat", header, body, "none")
    \/ \E id \in ClientIds, role \in Roles, content \in StreamContents :
            DbAddMessage(id, role, content, "none")
    \/ AcquireLock(1)
    \/ AcquireScan(1)
    \/ CallUpstream(1, "ok")
    \/ \E up \in UpstreamBodies : StreamStart(1, up, FALSE)
    \/ \E ioerr \in BOOLEAN : StreamScan(1, ioerr)
    \/ Finish(1)

SpecStream == Init /\ [][NextStream]_vars

(* ------- a streaming request whose client may go away meanwhile -------- *)

CancelBody == ChatBody(ModelVertigoBlast, Absent, <<Message("user", "u")>>, TRUE)

NextCancel ==
    \/ HandlerReceive(1, "chat", EmptyId, CancelBody, "none")
    \/ AcquireLock(1)
    \/ AcquireScan(1)
    \/ CallUpstream(1, "ok")
    \/ \E up \in UpstreamBodies, stalls \in BOOLEAN : StreamStart(1, up, stalls)
    \/ ClientDisconnect(1)
    \/ \E ioerr \in BOOLEAN : StreamScan(1, ioerr)
    \/ Finish(1)

\* the goroutine of the handler runs, and the timer of the client fires: a turn of
\* the loop that can be taken is taken
SpecCancel ==
    Init /\ [][NextCancel]_vars /\ WF_vars(\E ioerr \in BOOLEAN : StreamScan(1, ioerr))

(* ------------------- requests through NewProxyHandler ------------------ *)

NextProxy ==
    \/ \E p \in Requests, kind \in BodyKinds, cid \in IdArgs, msgs \in ClientMessageLists :
            ProxyDirector(p, kind, cid, IF kind = "chat" THEN ModelVertigoBlast ELSE Absent, msgs)
    \/ \E p \in Requests, outcome \in UpstreamOutcomes : ProxyRoundTrip(p, outcome)
    \/ \E p \in Requests, resp \in {NoResponse, GeminiResponse(TRUE, <<<<ReplyText>>>>, 1, 2)} :
            ProxyModifyResponse(p, resp)
    \/ \E p \in Requests : ProxyFinish(p)
    \/ TickStore

SpecProxy == Init /\ [][NextProxy]_vars

(* ------ one request through NewProxyHandler and back, no conversation ------ *)

NextTranslate ==
    \/ \E kind \in BodyKinds, model \in ClientModels, msgs \in ClientMessageLists :
            ProxyDirector(1, kind, EmptyId, IF kind = "chat" THEN model ELSE Absent, msgs)
    \/ \E outcome \in UpstreamOutcomes : ProxyRoundTrip(1, outcome)
    \/ \E resp \in GeminiResponses : ProxyModifyResponse(1, resp)
    \/ ProxyFinish(1)

SpecTranslate == Init /\ [][NextTranslate]_vars

(* ----------- requests through NewProxyHandler over the SQLite store ----- *)

NextProxyDb ==
    \/ \E kind \in BodyKinds, cid \in IdArgs, fault \in DirectorFaults :
            \E body \in BodiesOf(kind) : DbProxyDirector(1, kind, cid, body, fault)
    \/ \E outcome \in UpstreamOutcomes : ProxyRoundTrip(1, outcome)
    \/ ProxyErrorHandler(1)
    \/ ProxyFinish(1)
    \/ TickStore

SpecProxyDb == Init /\ [][NextProxyDb]_vars

(* ---------------- the credential pool, called sequentially ------------- *)

NextPool ==
    \/ GetNextAvailableKey
    \/ \E key \in Keys \cup {UnknownKey}, d \in 1..MaxDuration : MarkKeyAsBad(key, d)
    \/ GetNextKey
    \/ Tick

SpecPool == Init /\ [][NextPool]_vars

(* ------------- the conversation stores, called sequentially ------------ *)

NextMemStore ==
    \/ \E id \in IdArgs : MemGetConversation(id)
    \/ \E id \in IdArgs, role \in Roles, content \in Contents : MemAddMessage(id, role, content)
    \/ \E id \in IdArgs : MemClearConversation(id)
    \/ TickStore

SpecMemStore == Init /\ [][NextMemStore]_vars

NextDbStore ==
    \/ \E id \in IdArgs, fault \in GetFaults : DbGetConversation(id, fault)
    \/ \E id \in IdArgs, role \in Roles, content \in Contents, fault \in AddFaults :
            DbAddMessage(id, role, content, fault)
    \/ \E id \in IdArgs, fault \in {"none", "begin"} : DbClearConversation(id, fault)
    \/ TickStore

SpecDbStore == Init /\ [][NextDbStore]_vars

NextMemConc ==
    \/ \E t \in Threads, id \in IdArgs : CallGet(t, id)
    \/ \E t \in Threads, id \in IdArgs, role \in Roles, content \in Contents :
            CallAdd(t, id, role, content)
    \/ \E t \in Threads : StepLoad(t)
    \/ \E t \in Threads : StepTouch(t)
    \/ \E t \in Threads : StepStore(t)
    \/ \E t \in Threads : StepRead(t)
    \/ \E t \in Threads : StepWrite(t)
    \/ \E t \in Threads : StepStamp(t)
    \/ \E t \in Threads : StepReturn(t)
    \/ TickStore

SpecMemConc == Init /\ [][NextMemConc]_vars

(* ======================= claims on the credential pool ================= *)

Distinct(s) == \A i, j \in DOMAIN s : i # j => s[i] # s[j]

\* C1: with no quarantine in between, any n consecutive acquire calls return n
\* distinct credentials; the windows hold the last <= n keys each pool returned.
C1_RoundRobin == Distinct(kmWindow) /\ Distinct(krWindow)

\* the round-robin property of KeyRotator.GetNextKey alone
C1_RotatorRoundRobin == Distinct(krWindow)

\* the case of C1: GetNextAvailableKey was called twice in a row with no quarantine in between
C1_TwoAcquires == Len(kmWindow) = 2

\* the scan of GetNextAvailableKey at time t on status pre reaches key c
Reached(pre, t, c) == \A j \in 1..(c - 1) : ~KeyAvailable(pre[j], t)

\* C2: after quarantine(c, d) at time t no acquire made before t + d returns c, and an
\* acquire made after t + d that reaches c in rotation order returns c and clears its flag.
C2_QuarantineHolds ==
    lastOp.op = "acquire" =>
        /\ lastOp.key # NoKey => ~(lastOp.at < qUntil[lastOp.key])
        /\ \A c \in Keys :
            (qUntil[c] # ZeroTime /\ lastOp.at > qUntil[c] /\ Reached(lastOp.pre, lastOp.at, c))
                => (lastOp.key = c /\ ~keyStatus[c].IsBad)

\* the case of C2: an acquire was made while a quarantine of its first key was running
C2_AcquireDuringQuarantine ==
    /\ lastOp.op = "acquire"
    /\ lastOp.at < qUntil[1]

\* C6: re-quarantining an already quarantined credential leaves the later of the two
\* computed expiries in place.
C6_NeverShortens ==
    (lastOp.op = "mark" /\ lastOp.key \in Keys /\ lastOp.pre[lastOp.key].IsBad) =>
        keyStatus[lastOp.key].BadUntil =
            Max(lastOp.pre[lastOp.key].BadUntil, lastOp.at + lastOp.dur)

\* the case of C6: a quarantined key was quarantined again
C6_Requarantined ==
    /\ lastOp.op = "mark"
    /\ lastOp.key \in Keys
    /\ lastOp.pre[lastOp.key].IsBad

(* ====================== claims on the conversation stores ============== *)

\* C8: in both backends append(id, role, content) followed by get(id) returns a history
\* whose last element is that message and whose length is one more than the length
\* get(id) returned before the append.
C8_AppendThenGet ==
    probe.stage = 3 =>
        /\ Len(probe.h1) = Len(probe.h0) + 1
        /\ probe.h1[Len(probe.h1)] = probe.msg

\* the case of C8: a get, an append and a get on one id of one backend, all successful
C8_GetAppendGet == probe.stage = 3

\* the ids under which a backend holds a conversation
StoredIds(be) == IF be = "mem" THEN DOMAIN memMap ELSE DOMAIN dbConvs

\* C10: get(id) never fails for an unknown or empty id: it returns an empty conversation,
\* stored under id when id is non-empty and unknown, and under a newly generated
\* non-empty id when id is empty.
C10_GetUnknownOrEmpty ==
    (lastCall.op = "get" /\ lastCall.fault = "none" /\ (lastCall.id = EmptyId \/ ~lastCall.known)) =>
        /\ lastCall.ok
        /\ lastCall.hist = <<>>
        /\ lastCall.key # EmptyId
        /\ lastCall.key \in StoredIds(lastCall.be)
        /\ lastCall.id # EmptyId => lastCall.key = lastCall.id

\* the case of C10: the in-memory store was asked for the empty id
C10_MemGetEmptyId ==
    /\ lastCall.be = "mem"
    /\ lastCall.op = "get"
    /\ lastCall.id = EmptyId

\* the number of times m occurs in the history h
Occurrences(h, m) == Cardinality({i \in DOMAIN h : h[i] = m})

\* C9: under any interleaving of get and append calls on one id, once k appends have
\* completed a get returns a history that holds all k messages, each exactly once.
C9_NoLostAppend ==
    \A t \in Threads :
        (thr[t].pc = "ret" /\ thr[t].op = "get") =>
            \A m \in thr[t].seen : Occurrences(thr[t].hist, m) = 1

\* the case of C9: a get returns that was called after an append had completed
C9_GetAfterAppend ==
    \E t \in Threads : thr[t].pc = "ret" /\ thr[t].op = "get" /\ thr[t].seen # {}

(* ----------------------- claims on the SQLite store -------------------- *)

\* C11: an append to the SQLite store is atomic, also when a statement fails: a message
\* row of a conversation is never stored without that conversation's last_updated
\* having been set at the row's timestamp or later
C11_AppendAtomic ==
    \A i \in DOMAIN dbMsgs :
        dbMsgs[i].cid \in DOMAIN dbConvs => dbConvs[dbMsgs[i].cid] >= dbMsgs[i].ts

\* an AddMessage on an existing conversation whose UPDATE failed after its INSERT
C11_UpdateFailed ==
    /\ lastCall.be = "db" /\ lastCall.op = "add" /\ lastCall.fault = "update"
    /\ lastCall.id \in DOMAIN dbConvs
    /\ \E i \in DOMAIN dbMsgs : dbMsgs[i].cid = lastCall.id

\* C12: every stored message row references a conversation id that has a row in the
\* conversations table
C12_MessagesReferenceConversations ==
    \A i \in DOMAIN dbMsgs : dbMsgs[i].cid \in DOMAIN dbConvs

\* an AddMessage with the empty id that succeeded
C12_AddedWithEmptyId ==
    /\ lastCall.be = "db" /\ lastCall.op = "add" /\ lastCall.ok
    /\ lastCall.id = EmptyId

(* ---- requests through the Manager: the pool under concurrent requests --- *)

\* GetNextAvailableKey of request q has returned
AcquireReturned(q) == q.nAcq > 0 /\ q.pc \notin {"acquire", "scan"}

\* C3: when every key of the pool is quarantined at the return of GetNextAvailableKey,
\* it returns no key, and the request that called it fails: it makes no upstream
\* call, does not call GetNextAvailableKey again, and is answered with an error
C3_NoKeyFailsWithoutRetry ==
    \A r \in Requests :
        (AcquireReturned(reqs[r]) /\ reqs[r].sawAllBad) =>
            /\ reqs[r].apiKey = NoKey
            /\ reqs[r].pc \in {"fail", "done"}
            /\ reqs[r].nCall = 0
            /\ reqs[r].nAcq = 1
            /\ reqs[r].pc = "done" =>
                    (reqs[r].status = StatusInternalServerError /\ reqs[r].body = "error")

\* a request answered after it found every key quarantined
C3_AllQuarantinedAnswered ==
    \E r \in Requests :
        /\ reqs[r].pc = "done"
        /\ reqs[r].sawAllBad
        /\ reqs[r].nAcq = 1
        /\ \A k \in Keys : keyStatus[k].IsBad

\* C5: within one request GetNextAvailableKey is called at most once and the upstream
\* at most once, the upstream only with the key acquired; a request whose
\* acquisition or upstream call failed never reaches a success response
C5_SingleAttempt ==
    \A r \in Requests :
        /\ reqs[r].nAcq <= 1
        /\ reqs[r].nCall <= 1
        /\ reqs[r].nCall = 1 => (reqs[r].nAcq = 1 /\ reqs[r].apiKey # NoKey)
        /\ (reqs[r].upstream \in UpstreamFailures \/ (AcquireReturned(reqs[r]) /\ reqs[r].apiKey = NoKey)) =>
                /\ reqs[r].pc \in {"mark", "mark_bad", "mark_until", "fail", "done"}
                /\ reqs[r].pc = "done" => reqs[r].status # StatusOK

\* a request answered after its upstream call failed and its key was quarantined,
\* while the pool still has an available key
C5_FailedWithKeyLeft ==
    \E r \in Requests :
        /\ reqs[r].pc = "done"
        /\ reqs[r].upstream \in UpstreamFailures
        /\ reqs[r].marked
        /\ \E k \in Keys : KeyAvailable(keyStatus[k], now)

\* C7: a GetNextAvailableKey that starts after a MarkKeyAsBad(c, d) has completed never
\* returns c before d has elapsed, whatever runs concurrently; and outside the
\* critical sections the status map holds the last quarantine of every key
C7_QuarantineObserved ==
    /\ \A r \in Requests : ~reqs[r].early
    /\ mutex = NoHolder =>
            \A k \in Keys : keyStatus[k].IsBad => keyStatus[k].BadUntil = qUntil[k]

\* two requests in the pool at once: one has passed over a quarantined key and taken
\* a later one, the other is inside MarkKeyAsBad
C7_AcquireAmidQuarantine ==
    \E r1, r2 \in Requests :
        /\ r1 # r2
        /\ reqs[r1].pc = "call"
        /\ \E k \in Keys : qUntil[k] # ZeroTime /\ now < qUntil[k] /\ reqs[r1].apiKey > k
        /\ reqs[r2].pc \in {"mark_bad", "mark_until"}

(* ------------------- requests through NewProxyHandler ------------------ *)

\* C4: a request whose upstream call failed is answered only after its key has been
\* quarantined, and never with a success body in client format; stated of the
\* requests of both handlers (a request of the Manager records its own quarantine,
\* a request of NewProxyHandler is held to any quarantine of its key at all)
C4_FailureQuarantines ==
    /\ \A r \in Requests :
            (reqs[r].pc = "done" /\ reqs[r].upstream \in UpstreamFailures) =>
                (reqs[r].marked /\ reqs[r].body = "error")
    /\ \A p \in Requests :
            (preqs[p].pc = "done" /\ preqs[p].upstream \in UpstreamFailures /\ preqs[p].key # NoKey) =>
                (qUntil[preqs[p].key] # ZeroTime /\ preqs[p].body # "completion")

\* a request through NewProxyHandler answered with the upstream's failure status
C4_ProxyRelaysFailure ==
    \E p \in Requests :
        /\ preqs[p].pc = "done"
        /\ preqs[p].upstream = "status"
        /\ preqs[p].key # NoKey
        /\ preqs[p].status = StatusInternalServerError

(* --------------- claims on the body the Manager sends upstream --------- *)

\* the messages of a list that come from the store (the store holds Contents only)
StoredPart(messages) == SelectSeq(messages, LAMBDA m : m.content \in Contents)

\* the messages of a list that the client sent
ClientPart(messages) == SelectSeq(messages, LAMBDA m : m.content \notin Contents)

\* the request was sent upstream with stored history and a new user turn
SentWithHistory(q) ==
    q.nCall = 1 /\ q.hist # <<>> /\ LastUserMessage(q.req.messages) # <<>>

\* C13: when the conversation has stored history m1..mk and the request brings a new
\* user turn u, the messages sent upstream hold m1..mk in that order, none twice and
\* none missing, and end with u
C13_HistoryInOrder ==
    \A r \in Requests :
        SentWithHistory(reqs[r]) =>
            /\ StoredPart(reqs[r].sent.messages) = reqs[r].hist
            /\ <<reqs[r].sent.messages[Len(reqs[r].sent.messages)]>> = LastUserMessage(reqs[r].req.messages)

\* a request sent upstream over a stored history of two different messages
C13_SentOverTwoMessages ==
    \E r \in Requests :
        /\ SentWithHistory(reqs[r])
        /\ Len(reqs[r].hist) = 2
        /\ reqs[r].hist[1] # reqs[r].hist[2]

\* C14: when the conversation has stored history and the request brings a new user
\* turn, the messages sent upstream hold no message the client sent except that turn
C14_ClientHistorySuperseded ==
    \A r \in Requests :
        SentWithHistory(reqs[r]) =>
            ClientPart(reqs[r].sent.messages) = LastUserMessage(reqs[r].req.messages)

\* a request sent upstream over stored history whose body carried an earlier turn
\* besides the new one
C14_SentWithClientHistory ==
    \E r \in Requests :
        /\ SentWithHistory(reqs[r])
        /\ Len(reqs[r].req.messages) = 2

\* the Director of NewProxyHandler builds the upstream messages from the stored
\* conversation: the client's earlier turns are not among them
ProxyDropsClientHistory ==
    \A p \in Requests : \A i \in DOMAIN preqs[p].out : preqs[p].out[i].content # "x"

(* -------------------------- claims on SelectModel ---------------------- *)

\* the request carries a chat body that ProcessRequest has taken through SelectModel
Selected(q) == q.kind = "chat" /\ q.pc # "idle"

\* C15: for a body naming the alias, effort low resolves to gemini-2.0-flash, medium
\* to gemini-2.5-flash, high to gemini-2.5-pro and an absent or any other effort to
\* gemini-2.5-flash, and "model" of the body that goes on is the resolved model
C15_AliasResolved ==
    \A r \in Requests :
        (Selected(reqs[r]) /\ reqs[r].req.model = ModelVertigoBlast) =>
            LET e        == reqs[r].req.reasoning_effort
                resolved == IF e = "low" THEN "gemini-2.0-flash"
                            ELSE IF e = "high" THEN "gemini-2.5-pro"
                            ELSE "gemini-2.5-flash"
            IN  /\ SelectModel(reqs[r].req).model = resolved
                /\ SelectModel(reqs[r].req).body.model = resolved
                /\ reqs[r].sent.model = resolved

\* a request naming the alias with an effort outside the table, sent upstream
C15_AliasWithUnknownEffort ==
    \E r \in Requests :
        /\ reqs[r].nCall = 1
        /\ reqs[r].req.model = ModelVertigoBlast
        /\ reqs[r].req.reasoning_effort = "turbo"

\* C16: for a body that does not name the alias SelectModel returns the requested
\* model and the body as it came, no field added, removed or changed
C16_OtherModelUntouched ==
    \A r \in Requests :
        (Selected(reqs[r]) /\ reqs[r].req.model # ModelVertigoBlast) =>
            /\ SelectModel(reqs[r].req).model = reqs[r].req.model
            /\ SelectModel(reqs[r].req).body = reqs[r].req
            /\ reqs[r].hist = <<>> => reqs[r].sent = reqs[r].req

\* a request naming a concrete model and carrying an effort, sent upstream
C16_OtherModelWithEffort ==
    \E r \in Requests :
        /\ reqs[r].nCall = 1
        /\ reqs[r].req.model = ModelGemini25FlashLite
        /\ reqs[r].req.reasoning_effort = "high"

Streaming(q) == q.body = "events"

\* the lines the scanner has returned
ReadLines(q) == SubSeq(q.up, 1, q.read)

\* the lines of the upstream body that reach the handler: all of them once the stream
\* was read to its sentinel or its end, else those read so far
Arrived(q) ==
    IF q.pc = "done" /\ q.ended # "ioerr" THEN q.up ELSE ReadLines(q)

IsUpstreamSentinel(line) == line.prefix = DataPrefix /\ line.form = "sentinel"

\* the place of the first data: [DONE] among lines, or one past their end
FirstSentinel(lines) ==
    IF \E i \in 1..Len(lines) : IsUpstreamSentinel(lines[i])
    THEN CHOOSE i \in 1..Len(lines) :
            /\ IsUpstreamSentinel(lines[i])
            /\ \A j \in 1..(i - 1) : ~IsUpstreamSentinel(lines[j])
    ELSE Len(lines) + 1

BeforeSentinel(lines) == SubSeq(lines, 1, FirstSentinel(lines) - 1)

IsDataLine(line) == line.prefix = DataPrefix
IsWellFormed(line) == line.prefix = DataPrefix /\ line.form = "object"

DataLines(lines) == SelectSeq(lines, IsDataLine)
WellFormedLines(lines) == SelectSeq(lines, IsWellFormed)

IsDelta(e) == e.type = "chunk"
DeltaEvents(q) == SelectSeq(q.events, IsDelta)

\* the text delta a line carries
TextDelta(line) ==
    CASE line.form = "object" /\ line.chunk = HelloChunk -> "Hello"
      [] line.form = "object" /\ line.chunk = WorldChunk -> " world"
      [] OTHER -> ""

\* C18: in a stream, the delta events sent so far are one per data line that arrived
\* before the upstream sentinel, in the order of arrival, each with the text delta of
\* its line; lines with another prefix give no event
C18_OneEventPerDataLine ==
    \A r \in Requests :
        Streaming(reqs[r]) =>
            LET sent == DeltaEvents(reqs[r])
                data == DataLines(BeforeSentinel(Arrived(reqs[r])))
            IN  /\ Len(sent) = Len(data)
                /\ \A i \in 1..Len(sent) : sent[i].content = TextDelta(data[i])

\* a stream read to its sentinel, with a data line before it that is no JSON object and
\* one that is
C18_ReadToSentinel ==
    \E r \in Requests :
        /\ Streaming(reqs[r])
        /\ reqs[r].ended = "sentinel"
        /\ \E i, j \in 1..(reqs[r].read - 1) :
                /\ IsWellFormed(reqs[r].up[i])
                /\ IsDataLine(reqs[r].up[j])
                /\ reqs[r].up[j].form = "malformed"

\* C19: a stream in progress has sent no data: [DONE]; a stream that is over has sent
\* exactly one, as its last event, whether the loop ended at the upstream sentinel, at
\* the end of the upstream body or at a read error; no line behind the upstream
\* sentinel is read, so none is forwarded
C19_OneTerminalSentinel ==
    \A r \in Requests :
        Streaming(reqs[r]) =>
            LET q == reqs[r] IN
            /\ q.pc = "stream" => \A i \in 1..Len(q.events) : q.events[i] # DoneEvent
            /\ q.pc = "done" =>
                    /\ q.ended \in {"sentinel", "close", "ioerr"}
                    /\ Len(q.events) >= 1
                    /\ q.events[Len(q.events)] = DoneEvent
                    /\ \A i \in 1..(Len(q.events) - 1) : q.events[i] # DoneEvent
            /\ q.read <= FirstSentinel(q.up)
            /\ Len(DeltaEvents(q)) <= Len(DataLines(BeforeSentinel(q.up)))

\* a stream that ended at the upstream sentinel after a delta event, with a well-formed
\* data line left behind the sentinel
C19_EndedAtSentinel ==
    \E r \in Requests :
        /\ Streaming(reqs[r])
        /\ reqs[r].pc = "done"
        /\ reqs[r].ended = "sentinel"
        /\ Len(reqs[r].events) >= 2
        /\ reqs[r].read < Len(reqs[r].up)
        /\ IsWellFormed(reqs[r].up[reqs[r].read + 1])

\* streams that ended at the end of the upstream body and at a read error with lines
\* unread
EndedAtClose ==
    \E r \in Requests : Streaming(reqs[r]) /\ reqs[r].ended = "close" /\ reqs[r].read = MaxLines
EndedAtError ==
    \E r \in Requests :
        Streaming(reqs[r]) /\ reqs[r].ended = "ioerr" /\ reqs[r].read < Len(reqs[r].up)

\* C20: the delta events sent are one per well-formed data line that arrived before
\* the upstream sentinel, in order, whatever malformed lines came before them; the
\* event of a chunk without the path choices[0].delta.content has the text ""
C20_MalformedChunkSkipped ==
    \A r \in Requests :
        Streaming(reqs[r]) =>
            LET sent == DeltaEvents(reqs[r])
                good == WellFormedLines(BeforeSentinel(Arrived(reqs[r])))
            IN  /\ Len(sent) = Len(good)
                /\ \A i \in 1..Len(sent) :
                        /\ sent[i].content = TextDelta(good[i])
                        /\ good[i].chunk \in PathlessChunks => sent[i].content = ""

\* a finished stream whose upstream sent a malformed data line, then a chunk with a
\* text and a chunk without the path
C20_WellFormedAfterMalformed ==
    \E r \in Requests :
        /\ Streaming(reqs[r])
        /\ reqs[r].pc = "done"
        /\ reqs[r].read = 3
        /\ reqs[r].up[1] = Line(DataPrefix, "malformed", NoChunk)
        /\ reqs[r].up[2] = Line(DataPrefix, "object", HelloChunk)
        /\ IsWellFormed(reqs[r].up[3])
        /\ reqs[r].up[3].chunk \in PathlessChunks

\* C21: the delta events of a stream all carry one identifier, and each carries the
\* model that SelectModel chose for the request, not the alias the client sent
C21_ResolvedModelInEvents ==
    \A r \in Requests :
        Streaming(reqs[r]) =>
            LET sent == DeltaEvents(reqs[r]) IN
            \A i \in 1..Len(sent) :
                /\ sent[i].id = sent[1].id
                /\ sent[i].model = SelectModel(reqs[r].req).model

\* a stream of a request that named the alias, with two delta events sent
C21_AliasStreamed ==
    \E r \in Requests :
        /\ Streaming(reqs[r])
        /\ reqs[r].req.model = ModelVertigoBlast
        /\ Len(DeltaEvents(reqs[r])) >= 2

\* the delta events of a stream all carry one identifier and the model the client named
StreamIdStable ==
    \A r \in Requests :
        Streaming(reqs[r]) =>
            \A i \in 1..Len(DeltaEvents(reqs[r])) :
                /\ DeltaEvents(reqs[r])[i].id = StreamId
                /\ DeltaEvents(reqs[r])[i].model = reqs[r].req.model

(* ------------------------ the non-streaming answer --------------------- *)

\* a chat request that did not ask for a stream and was answered with the completion
AnsweredCompletion(q) ==
    q.pc = "done" /\ q.kind = "chat" /\ ~q.stream /\ q.status = StatusOK /\ q.body = "completion"

\* C22: when a non-streaming request has been answered with the completion, the store
\* holds, under the conversation id of the request, an assistant message with the text
\* of that completion
C22_AssistantTurnAppended ==
    \A r \in Requests :
        AnsweredCompletion(reqs[r]) =>
            \E i \in RowsOf(dbMsgs, reqs[r].conv) :
                dbMsgs[i].role = "assistant" /\ dbMsgs[i].content = ReplyText

\* a non-streaming request over a conversation with stored history, answered with the
\* completion
C22_AnsweredOverHistory ==
    \E r \in Requests :
        /\ AnsweredCompletion(reqs[r])
        /\ reqs[r].header \in ClientIds
        /\ reqs[r].hist # <<>>

\* no step of a request through ChatCompletionsHandler changes the messages table
ManagerNeverAppends == [][reqs' # reqs => dbMsgs' = dbMsgs]_vars

\* C23: no step of a streaming request, from its arrival until the handler returns,
\* changes the messages table: the history stored under its conversation id (and under
\* every other id) is after the stream what it was before, but for what other
\* callers of the store appended
C23_StreamNeverAppends ==
    [][\A r \in Requests :
          (reqs'[r] # reqs[r] /\ (reqs[r].stream \/ reqs'[r].stream)) => dbMsgs' = dbMsgs]_vars

\* a stream that is over, of a request over a conversation with stored history, with
\* a delta event sent
C23_StreamedOverHistory ==
    \E r \in Requests :
        /\ Streaming(reqs[r])
        /\ reqs[r].pc = "done"
        /\ reqs[r].hist # <<>>
        /\ RowsOf(dbMsgs, reqs[r].conv) # {}
        /\ Len(DeltaEvents(reqs[r])) >= 1

(* ------------------ the answer ModifyResponse builds ------------------- *)

\* a request through NewProxyHandler whose 200 response ModifyResponse has rewritten
Translated(q) == q.pc = "done" /\ q.upstream = "ok" /\ q.got.parses

\* C24: the completion-token count of a rewritten response is the total count less the
\* prompt count of the upstream, or 0 when that is negative; it is never negative
C24_CompletionNeverNegative ==
    \A p \in Requests :
        Translated(preqs[p]) =>
            /\ preqs[p].reply.usage.completion_tokens
                    = Max(preqs[p].got.total - preqs[p].got.prompt, 0)
            /\ preqs[p].reply.usage.completion_tokens >= 0

\* a rewritten response of an upstream that reported a total below the prompt count
C24_TotalBelowPrompt ==
    \E p \in Requests : Translated(preqs[p]) /\ preqs[p].got.total < preqs[p].got.prompt

\* with a total that is at least the prompt count, the completion-token count is their
\* difference
CompletionIsDifference ==
    \A p \in Requests :
        (Translated(preqs[p]) /\ preqs[p].got.total >= preqs[p].got.prompt) =>
            preqs[p].reply.usage.completion_tokens = preqs[p].got.total - preqs[p].got.prompt

\* the rewritten response but for its model: one choice with the text of the first
\* part of the first candidate and the finish reason stop, and the usage block
OneChoiceAndUsage(q) ==
    /\ Len(q.reply.choices) = 1
    /\ q.reply.choices[1].content = ResponseMessage(q.got)
    /\ q.reply.choices[1].finish_reason = "stop"
    /\ q.reply.usage = [prompt_tokens |-> q.got.prompt,
                        completion_tokens |-> q.got.total - q.got.prompt,
                        total_tokens |-> q.got.total]

\* C25: the rewritten response of an upstream response with one candidate and usage
\* {prompt: p, total: t}, t >= p, has exactly one choice, with the candidate's text and
\* the finish reason stop, the model SelectModel chose for the request, and the usage
\* {prompt: p, completion: t - p, total: t}
C25_TranslatedResponse ==
    \A p \in Requests :
        (/\ Translated(preqs[p])
         /\ Len(preqs[p].got.candidates) = 1
         /\ preqs[p].got.total >= preqs[p].got.prompt) =>
            /\ OneChoiceAndUsage(preqs[p])
            /\ preqs[p].reply.model = preqs[p].model

\* a rewritten response of an upstream response with one candidate that has a text,
\* prompt 1 and total 2
C25_OneCandidate ==
    \E p \in Requests :
        /\ Translated(preqs[p])
        /\ preqs[p].got = GeminiResponse(TRUE, <<<<ReplyText>>>>, 1, 2)

\* all of C25 but the model holds; the model of the rewritten response is the alias
TranslatedButModel ==
    \A p \in Requests :
        (Translated(preqs[p]) /\ preqs[p].got.total >= preqs[p].got.prompt) =>
            OneChoiceAndUsage(preqs[p]) /\ preqs[p].reply.model = ModelVertigoBlast

(* ------------------------- bodies that do not parse -------------------- *)

\* the 4xx statuses
ClientErrors == 400..499

\* a request of ChatCompletionsHandler whose body is no JSON object: answered 4xx, with
\* no key acquired and no upstream call
ManagerRejectsMalformed ==
    \A r \in Requests :
        (reqs[r].pc = "done" /\ reqs[r].kind = "malformed") =>
            /\ reqs[r].status \in ClientErrors
            /\ reqs[r].nAcq = 0 /\ reqs[r].apiKey = NoKey
            /\ reqs[r].nCall = 0

\* C26: a request whose body fails to parse is answered with a 4xx status, and no key
\* is taken for it and the upstream is not called; stated of the requests of both
\* handlers
C26_MalformedRejected ==
    /\ ManagerRejectsMalformed
    /\ \A p \in Requests :
            (preqs[p].pc = "done" /\ preqs[p].kind = "malformed") =>
                /\ preqs[p].status \in ClientErrors
                /\ preqs[p].key = NoKey
                /\ preqs[p].upstream = "neterr"

\* a request through NewProxyHandler whose body did not parse, answered
C26_ProxyAnsweredMalformed ==
    \E p \in Requests :
        preqs[p].pc = "done" /\ preqs[p].kind = "malformed" /\ preqs[p].status # 0

\* a body that does not parse takes no key and reaches no upstream, in either handler
MalformedTakesNoKey ==
    /\ \A r \in Requests :
            reqs[r].kind \in {"malformed", "badmodel"} => (reqs[r].nAcq = 0 /\ reqs[r].nCall = 0)
    /\ \A p \in Requests :
            preqs[p].kind \in {"malformed", "badmodel"} =>
                (preqs[p].key = NoKey /\ preqs[p].upstream \in {"none", "neterr"})

\* a body whose "model" is no string is answered 500 by ChatCompletionsHandler
BadModelAnswered500 ==
    \A r \in Requests :
        (reqs[r].pc = "done" /\ reqs[r].kind = "badmodel") =>
            reqs[r].status = StatusInternalServerError

(* --------------------- upstream bodies of no use ----------------------- *)

ServerErrors == 500..599

\* C27: a non-streaming request whose upstream call succeeded with an empty body or a
\* body that is no JSON is answered with a 5xx status
C27_BadPayloadIsServerError ==
    \A r \in Requests :
        (/\ reqs[r].pc = "done"
         /\ reqs[r].upstream = "ok"
         /\ ~reqs[r].stream
         /\ reqs[r].payload \in {"empty", "unparsable"}) =>
            reqs[r].status \in ServerErrors

\* a non-streaming request answered after the upstream sent a body that is no JSON
C27_UnparsableAnswered ==
    \E r \in Requests :
        /\ reqs[r].pc = "done"
        /\ reqs[r].upstream = "ok"
        /\ reqs[r].payload = "unparsable"
        /\ reqs[r].body = "error"

\* a non-streaming request answered after the upstream sent an empty body
EmptyAnswered ==
    \E r \in Requests :
        reqs[r].pc = "done" /\ reqs[r].payload = "empty" /\ reqs[r].status = StatusOK

(* --------------------------- store failures ---------------------------- *)

\* C28: a chat request one of whose store calls failed still takes a key and has its
\* outbound body built: once its handler is past the store calls a key is acquired
\* for it, and it is not answered before the upstream was called, unless no key was
\* to be had; stated of the requests of both handlers
C28_StoreFailureNotFatal ==
    /\ \A r \in Requests :
            (reqs[r].kind = "chat" /\ reqs[r].storeErr) =>
                /\ reqs[r].pc \notin {"idle", "acquire", "scan"} => reqs[r].nAcq = 1
                /\ reqs[r].pc = "done" => (reqs[r].nCall = 1 \/ reqs[r].apiKey = NoKey)
    /\ \A p \in Requests :
            (preqs[p].kind = "chat" /\ preqs[p].storeErr) =>
                /\ preqs[p].key # NoKey
                /\ preqs[p].built # NoBody

\* a chat request through NewProxyHandler over the SQLite store, one of whose store
\* calls failed, answered
C28_AnsweredAfterStoreFailure ==
    \E p \in Requests :
        preqs[p].pc = "done" /\ preqs[p].kind = "chat" /\ preqs[p].storeErr

\* the Manager's half of C28: a failed GetConversation leaves the request without
\* history and does not stop it
ManagerSurvivesStoreFailure ==
    \A r \in Requests :
        (reqs[r].kind = "chat" /\ reqs[r].storeErr) =>
            /\ reqs[r].hist = <<>>
            /\ reqs[r].pc \notin {"idle", "acquire", "scan"} => reqs[r].nAcq = 1
            /\ reqs[r].pc = "done" => (reqs[r].nCall = 1 \/ reqs[r].apiKey = NoKey)

\* a request of the Manager answered with the completion after GetConversation failed
ManagerAnsweredAfterStoreFailure ==
    \E r \in Requests : AnsweredCompletion(reqs[r]) /\ reqs[r].storeErr

(* ------------------------------ log records ---------------------------- *)

\* C29: no log record written for a request holds the value of a key
C29_NoCredentialLogged ==
    \A r \in Requests : reqs[r].logged \cap Keys = {}

\* a request whose upstream call failed, answered
C29_FailedCallAnswered ==
    \E r \in Requests :
        /\ reqs[r].pc = "done"
        /\ reqs[r].upstream \in UpstreamFailures
        /\ reqs[r].apiKey \in Keys

\* only the record of a failed upstream call holds a key: a request whose call
\* succeeded, or that made none, logs no key
OnlyFailureLogsKey ==
    \A r \in Requests :
        reqs[r].upstream \notin UpstreamFailures => reqs[r].logged = {}

(* ------------------------ conversation identifiers --------------------- *)

\* a chat request in flight that came without the X-Conversation-ID header
WithoutId(q) == q.kind = "chat" /\ q.pc # "idle" /\ q.header = EmptyId

\* C30: two requests that both came without a conversation identifier use different
\* conversation ids, so neither reads the history of the other; a request that came
\* with the header uses the id of the header
C30_FreshIdPerRequest ==
    /\ \A r1, r2 \in Requests :
            (r1 # r2 /\ WithoutId(reqs[r1]) /\ WithoutId(reqs[r2])) =>
                reqs[r1].conv # reqs[r2].conv
    /\ \A r \in Requests :
            (reqs[r].kind = "chat" /\ reqs[r].header # EmptyId) => reqs[r].conv = reqs[r].header

\* two requests in flight that both came without the header
C30_TwoWithoutId ==
    \E r1, r2 \in Requests : r1 # r2 /\ WithoutId(reqs[r1]) /\ WithoutId(reqs[r2])

\* every request without the header uses the id default-conversation, and the id of the
\* header otherwise
PlaceholderShared ==
    \A r \in Requests :
        (reqs[r].kind = "chat" /\ reqs[r].pc # "idle") =>
            reqs[r].conv = IF reqs[r].header = EmptyId THEN DefaultConversation
                           ELSE reqs[r].header

(* -------------------------- the client goes away ----------------------- *)

\* C31: when the client has gone away during a stream, the handler comes to close the
\* upstream reader, also when the upstream sends no further line and does not close
C31_ClosedAfterDisconnect ==
    \A r \in Requests :
        (reqs[r].pc = "stream" /\ reqs[r].gone) ~> reqs[r].closed

\* the client has gone away, the upstream has stalled, and the handler has closed the
\* reader after the read was ended by the time limit
C31_ClosedOnStalledUpstream ==
    \E r \in Requests :
        /\ reqs[r].gone
        /\ reqs[r].stalls
        /\ reqs[r].read = Len(reqs[r].up)
        /\ reqs[r].closed
        /\ reqs[r].ended = "ioerr"

\* the reader is open while the loop runs and closed when the handler has returned
ClosedWhenOver ==
    \A r \in Requests :
        Streaming(reqs[r]) => (reqs[r].closed <=> reqs[r].pc = "done")

(* ---------------- appends and answers with an empty text ---------------- *)

\* message contents of the callers of the stores: the empty text and a text
AppendContents == {"", "a"}

\* a 200 response of the upstream without candidate, with a candidate without part,
\* with a candidate that has a text
AppendResponses == {GeminiResponse(TRUE, c, 1, 2) : c \in CandidateLists}

NextAppend ==
    \/ \E id \in ClientIds, role \in Roles, content \in AppendContents :
            MemAddMessage(id, role, content)
    \/ \E id \in ClientIds, role \in Roles, content \in AppendContents :
            DbAddMessage(id, role, content, "none")
    \/ \E cid \in ClientIds, msgs \in ClientMessageLists :
            ProxyDirector(1, "chat", cid, ModelVertigoBlast, msgs)
    \/ ProxyRoundTrip(1, "ok")
    \/ \E resp \in AppendResponses : ProxyModifyResponse(1, resp)
    \/ ProxyFinish(1)
    \/ TickStore

SpecAppend == Init /\ [][NextAppend]_vars

\* the step is a successful AddMessage of one of the stores
AppendStep == lastCall' # lastCall /\ lastCall'.op = "add" /\ lastCall'.ok

\* after the step the conversation of the AddMessage carries the time of the step
StampedNow ==
    IF lastCall'.be = "mem"
    THEN memObjs'[memMap'[lastCall'.key]].LastUpdated = now'
    ELSE dbConvs'[lastCall'.key] = now'

\* the step is ModifyResponse rewriting a 200 response with no text for a request with
\* a conversation
EmptyAnswerStep(p) ==
    /\ preqs[p].pc = "modify" /\ preqs'[p].pc = "done"
    /\ Translated(preqs'[p])
    /\ preqs'[p].convId # EmptyId
    /\ ResponseMessage(preqs'[p].got) = ""

\* after the step the conversation of request p is one assistant message with an empty
\* text longer than before
EmptyTurnAppended(p) ==
    LET cid == preqs'[p].convId IN
    /\ cid \in DOMAIN memMap'
    /\ memObjs'[memMap'[cid]].Messages =
           Append(memObjs[memMap[cid]].Messages, Message("assistant", ""))

\* C32: every append, also of a message with an empty content, sets lastUpdated of the
\* conversation to the current time, and the non-streaming response path appends the
\* assistant turn also when the text extracted from the upstream response is empty
C32_EmptyAppendAndEmptyTurn ==
    [][/\ AppendStep => StampedNow
       /\ \A p \in Requests : EmptyAnswerStep(p) => EmptyTurnAppended(p)]_vars

\* a 200 response without text was answered for a conversation whose last stored
\* message is not an assistant message with an empty text
C32_EmptyTextAnswered ==
    \E p \in Requests :
        /\ Translated(preqs[p]) /\ preqs[p].convId \in DOMAIN memMap
        /\ ResponseMessage(preqs[p].got) = ""
        /\ LET h == memObjs[memMap[preqs[p].convId]].Messages IN
           h = <<>> \/ h[Len(h)] # Message("assistant", "")

\* every AddMessage that succeeds, also of an empty content, stamps the conversation
AppendStampsNow == [][AppendStep => StampedNow]_vars

\* an AddMessage of an empty content succeeded on each store
EmptyContentAppended ==
    /\ lastCall.op = "add" /\ lastCall.ok /\ lastCall.msg.content = ""
    /\ \E i \in DOMAIN dbMsgs : dbMsgs[i].content = ""

\* request q was answered after GetNextAvailableKey returned "" ("no API keys available")
NoCredentialAnswered(q) ==
    q.pc = "done" /\ q.kind = "chat" /\ q.nAcq > 0 /\ q.apiKey = NoKey

\* request q was answered after GeminiClient.ChatCompletions returned an error
UpstreamFailureAnswered(q) ==
    q.pc = "done" /\ q.kind = "chat" /\ q.upstream \in UpstreamFailures

\* the statuses with which failed upstream calls are answered
UpstreamFailureStatuses == {StatusInternalServerError}

\* C33: a request that fails because no credential is available is answered with an
\* outcome of its own, not with the server-error outcome of a failed upstream call
C33_NoCredentialDistinguished ==
    \A r \in Requests :
        NoCredentialAnswered(reqs[r]) => reqs[r].status \notin UpstreamFailureStatuses

\* a request was answered while every key was quarantined
C33_AnsweredWithoutCredential == \E r \in Requests : NoCredentialAnswered(reqs[r])

\* a failed upstream call is answered with the server-error outcome
UpstreamFailureIsServerError ==
    \A r \in Requests :
        UpstreamFailureAnswered(reqs[r]) => reqs[r].status \in UpstreamFailureStatuses

\* a request was answered after its upstream call failed
UpstreamFailureWasAnswered == \E r \in Requests : UpstreamFailureAnswered(reqs[r])

(* ------------------- the states of a request, in order ------------------ *)

\* the states of a request in the order the specification of the service gives them
Pipeline ==
    <<"RESOLVE_CONVERSATION", "SELECT_MODEL", "ACQUIRE_CREDENTIAL", "TRANSLATE_OUTBOUND",
      "CALL_UPSTREAM", "TRANSLATE_INBOUND", "PERSIST", "RESPOND">>

\* what ProcessRequest runs before GetNextAvailableKey, in the order of its statements:
\* SelectModel, whose error ends the request; GetConversation; the building of the
\* final body with the history. A body the handler rejects reaches none of them.
StatesBeforeKey(q) ==
    IF q.kind \in {"unreadable", "malformed"} THEN <<>>
    ELSE IF q.kind = "badmodel" THEN <<"SELECT_MODEL">>
    ELSE <<"SELECT_MODEL", "RESOLVE_CONVERSATION", "TRANSLATE_OUTBOUND">>

\* what the handler runs once ProcessRequest returned the upstream reader: the JSON of
\* the upstream body is decoded and encoded again and written; a stream is rewritten
\* event by event as it is written. The store is not called.
StatesAfterCall(q) ==
    IF q.pc \in {"stream", "done"} /\ q.upstream = "ok"
    THEN <<"TRANSLATE_INBOUND", "RESPOND">>
    ELSE <<>>

\* the states request q has entered so far, in the order in which the code entered them
StatesEntered(q) ==
    IF q.pc = "idle" THEN <<>>
    ELSE StatesBeforeKey(q)
         \o (IF q.nAcq > 0 THEN <<"ACQUIRE_CREDENTIAL">> ELSE <<>>)
         \o (IF q.nCall > 0 THEN <<"CALL_UPSTREAM">> ELSE <<>>)
         \o StatesAfterCall(q)

\* s is the beginning of t
IsPrefixOf(s, t) == Len(s) <= Len(t) /\ SubSeq(t, 1, Len(s)) = s

\* request q was answered with the completion of the upstream
CompletionWritten(q) ==
    q.pc = "done" /\ q.upstream = "ok" /\ q.status = StatusOK /\ q.body = "completion"

\* C34: a request enters the states RESOLVE_CONVERSATION, SELECT_MODEL,
\* ACQUIRE_CREDENTIAL, TRANSLATE_OUTBOUND, CALL_UPSTREAM, TRANSLATE_INBOUND, PERSIST,
\* RESPOND in this order, none before its predecessor, and a request that is answered
\* with the completion has been through all of them
C34_StatesInOrder ==
    \A r \in Requests :
        /\ IsPrefixOf(StatesEntered(reqs[r]), Pipeline)
        /\ CompletionWritten(reqs[r]) => StatesEntered(reqs[r]) = Pipeline

\* a request answered with the completion, whose model was selected before its
\* conversation was fetched and which never entered PERSIST
C34_AnsweredOutOfOrder ==
    \E r \in Requests :
        /\ CompletionWritten(reqs[r])
        /\ StatesEntered(reqs[r]) =
              <<"SELECT_MODEL", "RESOLVE_CONVERSATION", "TRANSLATE_OUTBOUND",
                "ACQUIRE_CREDENTIAL", "CALL_UPSTREAM", "TRANSLATE_INBOUND", "RESPOND">>

\* the key is taken before the upstream is called, and the call comes before the answer
KeyThenCallThenAnswer ==
    \A r \in Requests :
        /\ reqs[r].nCall > 0 => reqs[r].nAcq > 0 /\ reqs[r].apiKey \in Keys
        /\ CompletionWritten(reqs[r]) => reqs[r].nCall > 0

\* a request whose model cannot be selected ends there: no key taken, no call made
BadModelEndsAtSelect ==
    \A r \in Requests :
        reqs[r].kind = "badmodel" => reqs[r].nAcq = 0 /\ reqs[r].nCall = 0

(* ----------------------- the lock and the upstream call ----------------- *)

\* request q is inside GeminiClient.ChatCompletions
InUpstreamCall(q) == q.pc = "call"

\* request q is between km.mutex.Lock() and the return of GetNextAvailableKey or of
\* MarkKeyAsBad: the loop over the keys, or the two assignments
InLockSection(q) == q.pc \in {"scan", "mark_bad", "mark_until"}

\* C35: the mutex of the KeyManager is never held by a request that is inside its
\* upstream call: whoever holds it is inside the loop of GetNextAvailableKey or the
\* assignments of MarkKeyAsBad, which end without waiting for anything, so that
\* another request can take a key or quarantine one while a call is in progress
C35_LockNotHeldAcrossCall ==
    /\ \A r \in Requests : InUpstreamCall(reqs[r]) => mutex # r
    /\ mutex # NoHolder => InLockSection(reqs[mutex])

\* two requests are inside their upstream calls at the same time
C35_TwoCallsAtOnce ==
    /\ \A r \in Requests : InUpstreamCall(reqs[r])
    /\ Cardinality(Requests) > 1

\* a request takes a key while another is inside its upstream call
AcquiresDuringCall ==
    \E r, s \in Requests : r # s /\ InUpstreamCall(reqs[r]) /\ mutex = s /\ reqs[s].pc = "scan"

\* a request quarantines its key while another is inside its upstream call
QuarantinesDuringCall ==
    \E r, s \in Requests :
        r # s /\ InUpstreamCall(reqs[r]) /\ mutex = s /\ reqs[s].pc \in {"mark_bad", "mark_until"}

(* --------------------- the order of a fetched history ------------------- *)

\* rows of conversation cid that carry the same timestamp and differ
TiedRows(msgs, cid) ==
    \E i, j \in RowsOf(msgs, cid) :
        i < j /\ msgs[i].ts = msgs[j].ts
        /\ Message(msgs[i].role, msgs[i].content) # Message(msgs[j].role, msgs[j].content)

\* the last call was a GetConversation of the SQLite store that succeeded
DbGetReturned == lastCall.be = "db" /\ lastCall.op = "get" /\ lastCall.ok

\* C36: GetConversation of the SQLite store returns the messages of the conversation
\* in the order in which they were appended, also when appends carry the same
\* timestamp
C36_GetInAppendOrder ==
    DbGetReturned => lastCall.hist = AppendOrder(dbMsgs, lastCall.key)

\* GetConversation returned a history of two messages appended with the same timestamp
C36_GetOverTiedRows ==
    DbGetReturned /\ Len(lastCall.hist) = 2 /\ TiedRows(dbMsgs, lastCall.key)

\* rows with different timestamps come back in the order of their appends
GetInAppendOrderUntied ==
    (DbGetReturned /\ ~TiedRows(dbMsgs, lastCall.key)) =>
        lastCall.hist = AppendOrder(dbMsgs, lastCall.key)

\* GetConversation returned two different messages appended at different times
GetOverUntiedRows ==
    /\ DbGetReturned /\ Len(lastCall.hist) = 2 /\ lastCall.hist[1] # lastCall.hist[2]
    /\ ~TiedRows(dbMsgs, lastCall.key)

(* ---------------------- handler.NewCompletionsHandler ------------------- *)

\* the bodies of requests to /openai/v1/completions: text that is no JSON, or a prompt
CompletionsKinds == {"malformed", "prompt"}

\* the model name NewCompletionsHandler writes into every response
ModelTextDavinci == "text-davinci-003"

\* Director of NewCompletionsHandler: on an unreadable or unparsable body it returns
\* with the request untouched; else it puts the prompt into a Gemini request, takes the
\* next key of the rotator and sets the upstream URL
CompletionsDirector(p, kind) ==
    /\ preqs[p].pc = "idle"
    /\ IF kind = "malformed"
       THEN /\ preqs' = [preqs EXCEPT ![p] = [IdleProxyReq EXCEPT !.pc = "c_roundtrip", !.kind = kind]]
            /\ UNCHANGED <<krIndex, krWindow>>
       ELSE /\ preqs' = [preqs EXCEPT ![p] =
                    [IdleProxyReq EXCEPT !.pc = "c_roundtrip", !.kind = kind, !.routed = TRUE,
                                         !.key = RotatorKey(krIndex),
                                         !.out = <<Message("user", "u")>>]]
            /\ krIndex' = RotatorNext(krIndex)
            /\ krWindow' = LastN(Append(krWindow, RotatorKey(krIndex)), NKeys)
    /\ UNCHANGED <<now, keyStatus, mutex, qUntil, kmWindow, lastOp, storeVars,
                   thr, completed, reqs>>

\* ReverseProxy: transport.RoundTrip for a request of NewCompletionsHandler
CompletionsRoundTrip(p, outcome) ==
    /\ preqs[p].pc = "c_roundtrip"
    /\ ~preqs[p].routed => outcome = "neterr"
    /\ preqs' = [preqs EXCEPT ![p].pc = "c_modify", ![p].upstream = outcome]
    /\ UNCHANGED <<now, poolVars, storeVars, thr, completed, reqs>>

\* ModifyResponse of NewCompletionsHandler evaluates Candidates[0].Content.Parts[0].Text
\* whenever there is a candidate: the index is out of range when that candidate has
\* no part, and the goroutine of the request panics
CompletionsPanics(resp) == Len(resp.candidates) > 0 /\ Len(resp.candidates[1]) = 0

\* openAIResp of NewCompletionsHandler: one choice with the text of the first part of
\* the first candidate, or no choice when there is no candidate
CompletionsResp(resp) ==
    [model |-> ModelTextDavinci,
     choices |-> IF Len(resp.candidates) > 0
                 THEN <<[text |-> resp.candidates[1][1], index |-> 0, finish_reason |-> "stop"]>>
                 ELSE <<>>,
     usage |-> [prompt_tokens |-> resp.prompt,
                completion_tokens |-> CompletionTokens(resp.prompt, resp.total),
                total_tokens |-> resp.total]]

\* ReverseProxy for NewCompletionsHandler: 502 on a transport error or when
\* ModifyResponse returns an error; a non-200 response is passed on; a 200 response is
\* rewritten. When ModifyResponse panics nothing recovers before net/http, which
\* closes the connection: the client gets no response (status 0, body "aborted")
CompletionsModifyResponse(p, resp) ==
    /\ preqs[p].pc = "c_modify"
    /\ preqs[p].upstream # "ok" => resp = NoResponse
    /\ LET ok     == preqs[p].upstream = "ok" /\ resp.parses
           panics == ok /\ CompletionsPanics(resp)
       IN preqs' = [preqs EXCEPT ![p].pc = "done",
            ![p].status = IF preqs[p].upstream = "neterr" THEN StatusBadGateway
                          ELSE IF preqs[p].upstream = "status" THEN StatusInternalServerError
                          ELSE IF ~resp.parses THEN StatusBadGateway
                          ELSE IF panics THEN 0 ELSE StatusOK,
            ![p].body = IF preqs[p].upstream = "status" THEN "upstream"
                        ELSE IF panics THEN "aborted"
                        ELSE IF ok THEN "completion" ELSE "error",
            ![p].got = resp,
            ![p].reply = IF ok /\ ~panics THEN CompletionsResp(resp) ELSE NoReply]
    /\ UNCHANGED <<now, poolVars, storeVars, thr, completed, reqs>>

\* one request at a time through NewProxyHandler or through NewCompletionsHandler
NextCompletions ==
    \/ \E kind \in BodyKinds, model \in ClientModels, msgs \in ClientMessageLists :
            ProxyDirector(1, kind, EmptyId, IF kind = "chat" THEN model ELSE Absent, msgs)
    \/ \E outcome \in UpstreamOutcomes : ProxyRoundTrip(1, outcome)
    \/ \E resp \in GeminiResponses : ProxyModifyResponse(1, resp)
    \/ \E kind \in CompletionsKinds : CompletionsDirector(1, kind)
    \/ \E outcome \in UpstreamOutcomes : CompletionsRoundTrip(1, outcome)
    \/ \E resp \in GeminiResponses : CompletionsModifyResponse(1, resp)
    \/ ProxyFinish(1)

SpecCompletions == Init /\ [][NextCompletions]_vars

\* the texts of the choices of a rewritten response, of either endpoint
ChoiceTexts(reply) ==
    {IF "text" \in DOMAIN reply.choices[i] THEN reply.choices[i].text
     ELSE reply.choices[i].content : i \in DOMAIN reply.choices}

\* request q got a 200 response that parses and has no candidate, or whose first
\* candidate has no part, and the handler is through with it
TextlessAnswered(q) == Translated(q) /\ ResponseMessage(q.got) = ""

\* C37: a 200 response of the upstream without candidate, or whose first candidate has
\* no text part, is rewritten into a 200 response whose text is empty, on the chat
\* endpoint and on the completions endpoint; the rewriting does not abort
C37_TextlessTranslated ==
    \A p \in Requests :
        TextlessAnswered(preqs[p]) =>
            /\ preqs[p].status = StatusOK
            /\ preqs[p].body = "completion"
            /\ ChoiceTexts(preqs[p].reply) \subseteq {""}

\* a request to the completions endpoint whose upstream response has one candidate
\* without part
C37_PartlessCompletion ==
    \E p \in Requests :
        /\ TextlessAnswered(preqs[p]) /\ preqs[p].kind = "prompt"
        /\ preqs[p].got.candidates = <<<<>>>>

\* on the chat endpoint the claim holds
ChatTextlessTranslated ==
    \A p \in Requests :
        (TextlessAnswered(preqs[p]) /\ preqs[p].kind = "chat") =>
            /\ preqs[p].status = StatusOK
            /\ preqs[p].reply.choices =
                   <<[role |-> "assistant", content |-> "", finish_reason |-> "stop"]>>

\* a chat request was answered for a response without candidate and for one whose
\* candidate has no part
ChatTextlessAnswered ==
    \E p \in Requests :
        /\ TextlessAnswered(preqs[p]) /\ preqs[p].kind = "chat"
        /\ preqs[p].got.candidates = <<<<>>>>

(* -------------------- the store after a failed request ------------------ *)

\* a chat request over the SQLite store that was answered with an error: it failed in
\* the Director or in the transport, at or before the upstream call
FailedBeforeAnswer(q) ==
    q.pc = "done" /\ q.kind = "chat" /\ q.status # StatusOK /\ q.upstream # "ok"

\* C38: a request that fails at or before the upstream call leaves the stored history
\* of its conversation as it was when the request came in, so that a retry of the same
\* turn does not put the user turn into the outbound body twice
C38_FailureLeavesStore ==
    \A p \in Requests :
        FailedBeforeAnswer(preqs[p]) =>
            AppendOrder(dbMsgs, preqs[p].convId) = preqs[p].before

\* a retry: the request failed, its conversation already held the user turn of the
\* failed first attempt, and the body built for the retry holds that turn twice
C38_RetryDoublesUserTurn ==
    \E p \in Requests :
        /\ FailedBeforeAnswer(preqs[p])
        /\ preqs[p].before = <<Message("user", "u")>>
        /\ preqs[p].built.messages = <<Message("user", "u"), Message("user", "u")>>

\* every chat request over the SQLite store fails in the transport
DbProxyAlwaysFails ==
    \A p \in Requests : (preqs[p].pc = "done" /\ preqs[p].kind = "chat") => preqs[p].status = StatusBadGateway

\* a failed request whose last message is no user turn leaves the store as it was
FailureWithoutUserTurnLeavesStore ==
    \A p \in Requests :
        (FailedBeforeAnswer(preqs[p]) /\ LastUserMessage(preqs[p].out) = <<>>) =>
            AppendOrder(dbMsgs, preqs[p].convId) = preqs[p].before

(* ------------- the stored conversation and the outbound request --------- *)

\* requests through NewProxyHandler while other callers append to the in-memory store
\* and clear it
NextFrame ==
    \/ \E id \in ClientIds, role \in Roles, content \in StreamContents :
            MemAddMessage(id, role, content)
    \/ \E id \in ClientIds : MemClearConversation(id)
    \/ \E p \in Requests, cid \in IdArgs, msgs \in ClientMessageLists :
            ProxyDirector(p, "chat", cid, ModelVertigoBlast, msgs)
    \/ \E p \in Requests : ProxyRoundTrip(p, "ok")
    \/ \E p \in Requests : ProxyModifyResponse(p, GeminiResponse(TRUE, <<<<ReplyText>>>>, 1, 2))
    \/ \E p \in Requests : ProxyFinish(p)

SpecFrame == Init /\ [][NextFrame]_vars

\* the messages the in-memory store holds under id
StoredHistory(objs, map, id) == IF id \in DOMAIN map THEN objs[map[id]].Messages ELSE <<>>

\* C39: in the in-memory store the history of a conversation changes only through
\* AddMessage and ClearConversation: no step of a request through the handler, which
\* builds the outbound request from the conversation GetConversation returned, adds,
\* removes or changes a stored message
C39_OnlyAppendAndDeleteChange ==
    [][preqs' # preqs =>
          \A id \in ClientIds :
              StoredHistory(memObjs', memMap', id) = StoredHistory(memObjs, memMap, id)]_vars

\* the Director built an outbound request with a user turn from a stored conversation
C39_BuiltFromStored ==
    \E p \in Requests :
        /\ preqs[p].pc = "roundtrip" /\ preqs[p].convId \in DOMAIN memMap
        /\ Len(preqs[p].out) = Len(preqs[p].before) + 1

====
